---- MODULE Spec2Model ----
(***************************************************************************)
(* UrbanSenseAI: the task orchestration of App.tsx (the documented App     *)
(* component, src/App.tsx lines 416-614) together with the hooks it uses:  *)
(* useTextToSpeech (src/unnamed/part_009), useSpeechRecognition            *)
(* (src/unnamed/part_010), useLocation (src/hooks/useLocation.ts),         *)
(* CameraView (src/components/CameraView.tsx) and the analysis service     *)
(* (src/services/geminiService.ts).                                        *)
(*                                                                         *)
(* React state is committed at the end of every handler: a step of the     *)
(* model is one browser task (a click, a provider event, a promise         *)
(* settling) run to completion, followed by the render it causes and the   *)
(* effects of that render.                                                 *)
(***************************************************************************)
EXTENDS Integers, Sequences, FiniteSets, TLC

VARIABLES
    \* ---- App (useState / useRef) ----
    isProcessing,          \* AssistanceTask or "null"
    statusMessage,         \* the text of the status bar
    currentLangCode,       \* a code of LANGUAGES
    isMockMode,            \* BOOLEAN
    cameraError,           \* a message or "null"
    activeTaskRef,         \* activeTaskRef.current: AssistanceTask or "null"
    \* ---- useTextToSpeech ----
    isSpeaking,            \* BOOLEAN
    voices,                \* how many times the voice list was (re)loaded
    \* ---- useLocation ----
    location,              \* "coords" or "null"
    locationError,         \* a message or "null"
    isRequestingLocation,  \* BOOLEAN
    \* ---- useSpeechRecognition ----
    isListening,           \* BOOLEAN
    speechError,           \* a message or "null"
    \* ---- the browser and the network ----
    synth,                 \* window.speechSynthesis: utterances whose last event is not delivered yet
    recognition,           \* recognitionRef.current: "idle", "starting", "listening", "ending"
    sessionLang,           \* recognition.lang of the session in progress, "" when there is none
    aborted,               \* instances aborted by the hook's cleanup whose end event is pending
    camera,                \* getUserMedia: "acquiring", "streaming", "failed"
    calls,                 \* analyzeImageWithGemini calls in flight
    \* ---- observation ----
    changes,               \* how many times the user changed a setting
    lastEvent,             \* the handler that ran in the latest step
    \* ---- one call of analyzeImageWithGemini, followed on its own ----
    service,               \* [pc, task, isMockMode, dev, hasKey, invoked, outcome, completion]
    \* ---- one transcript handed to handleVoiceCommand, followed on its own ----
    resolution,            \* [pc, command, task]
    \* ---- the earlier App component (src/App.tsx 92-319) with its hooks ----
    earlier,               \* the record of EarlierMount
    \* ---- useTextToSpeech alone, with the promises speak returned ----
    tts,                   \* [isSpeaking, synth, promises, lastEvent]
    \* ---- one request to the serverless function ----
    proxy,                 \* [pc, version, event, modelCalled, response]
    \* ---- the service worker and its caches ----
    worker,                \* [pc, caches, request, fetched, response, ...]
    \* ---- one CameraView from mount to teardown ----
    view                   \* [mounted, runs, srcObject, reported, lastEvent]

appVars == <<isProcessing, statusMessage, currentLangCode, isMockMode, cameraError,
             activeTaskRef, isSpeaking, voices, location, locationError,
             isRequestingLocation, isListening, speechError, synth, recognition,
             sessionLang, aborted, camera, calls, changes, lastEvent>>

vars == <<isProcessing, statusMessage, currentLangCode, isMockMode, cameraError,
          activeTaskRef, isSpeaking, voices, location, locationError,
          isRequestingLocation, isListening, speechError, synth, recognition,
          sessionLang, aborted, camera, calls, changes, lastEvent, service, resolution, earlier, tts,
          proxy, worker, view>>

\* what a step of the session, of the service, of the resolution leaves alone
besideApp == <<service, resolution, earlier, tts, proxy, worker, view>>
besideService == <<appVars, resolution, earlier, tts, proxy, worker, view>>
besideResolution == <<appVars, service, earlier, tts, proxy, worker, view>>
besideEarlier == <<appVars, service, resolution, tts, proxy, worker, view>>
besideSpeech == <<appVars, service, resolution, earlier, proxy, worker, view>>
besideProxy == <<appVars, service, resolution, earlier, tts, worker, view>>
besideWorker == <<appVars, service, resolution, earlier, tts, proxy, view>>
besideView == <<appVars, service, resolution, earlier, tts, proxy, worker>>

null == "null"

(***************************************************************************)
(* Bounds of the model.                                                    *)
(***************************************************************************)
MaxUtterances == 2      \* utterances with an undelivered event
MaxCalls == 1           \* analysis calls in flight
MaxAborted == 1         \* aborted recognition instances with a pending end event
MaxVoicesChanged == 1   \* voiceschanged events
MaxSettingsChanges == 1 \* changes of language or mock mode

(***************************************************************************)
(* types.ts, constants.ts, UI_STRINGS                                      *)
(***************************************************************************)
FIND_BUS == "FIND_BUS"
CROSS_ROAD == "CROSS_ROAD"
EXPLORE == "EXPLORE"
FIND_SHOP == "FIND_SHOP"
AssistanceTask == {FIND_BUS, CROSS_ROAD, EXPLORE, FIND_SHOP}

LANGUAGES == <<"en-US", "hi-IN", "es-ES">>

UI_STRINGS(lang, key) ==
    CASE key = "status_initializing" -> "Initializing... [" \o lang \o "]"
      [] key = "status_ready"        -> "Ready. Select a task. [" \o lang \o "]"
      [] key = "status_processing"   -> "Analyzing... [" \o lang \o "]"
      [] key = "status_location"     -> "Acquiring location... [" \o lang \o "]"
      [] key = "status_listening"    -> "Listening... [" \o lang \o "]"
      [] key = "shop_prompt"         -> "What kind of shop are you looking for? [" \o lang \o "]"
      \* the keys of the earlier App component
      [] key = "welcome"             -> "Session started. Tap a task or use the voice command button. [" \o lang \o "]"
      [] key = "listening"           -> "Listening for a command... [" \o lang \o "]"
      [] key = "commandSorry"        -> "Sorry, I didn't recognize that command. [" \o lang \o "]"

TASK_PROMPTS(task) == "<baseSystemInstruction + prompt of " \o task \o ">"

MOCK_RESPONSES(task) ==
    CASE task = FIND_BUS   -> "I see bus number 123 to 'City Center' arriving on your right in about 15 meters."
      [] task = CROSS_ROAD -> "The pedestrian signal is green, it is safe to cross. A blue car is waiting on your left."
      [] task = EXPLORE    -> "You are on a sidewalk next to a park. There is a bench 5 meters in front of you and a trash can to your right."
      [] task = FIND_SHOP  -> "I can see a 'Corner Coffee Shop' about 20 meters ahead and to your left."

\* JavaScript truthiness of a string-or-undefined value
undefined == "undefined"
Truthy(x) == x \notin {"", undefined, null}

(***************************************************************************)
(* services/geminiService.ts                                               *)
(***************************************************************************)
AI_TEXT == "Bus number 42 to Downtown is about 20 meters away."

\* What ai.models.generateContent can do in the browser: resolve with a
\* response whose .text is a string or undefined, or throw an Error.
SdkOutcomes ==
    {[kind |-> "response", text |-> t, message |-> ""] : t \in {AI_TEXT, "", undefined}}
    \cup
    {[kind |-> "throw", text |-> "", message |-> m] :
        m \in {"API key not valid. Please pass a valid API key.",
               "The caller does not have permission",
               "Resource has been exhausted"}}

\* error.message.includes('API key') || error.message.includes('permission')
IncludesApiKeyOrPermission(message) ==
    message \in {"API key not valid. Please pass a valid API key.",
                 "The caller does not have permission"}

\* What fetch('/.netlify/functions/analyzeImage') can do: reject (no
\* connection), or resolve with a status and a body; the body is JSON or not,
\* and a JSON body has a text field, an error field, both or neither.
HttpStatuses == {200, 401, 403, 500, 503}
FetchOutcomes ==
    {[kind |-> "reject", status |-> 0, json |-> FALSE, text |-> undefined,
      error |-> undefined, message |-> "Failed to fetch"]}
    \cup
    {[kind |-> "response", status |-> st, json |-> FALSE, text |-> undefined,
      error |-> undefined, message |-> "Unexpected token < in JSON at position 0"] :
        st \in HttpStatuses}
    \cup
    {[kind |-> "response", status |-> st, json |-> TRUE, text |-> t,
      error |-> e, message |-> ""] :
        st \in HttpStatuses, t \in {AI_TEXT, "", undefined},
        e \in {undefined, "The AI service returned an empty response."}}

ResponseOk(status) == status >= 200 /\ status <= 299

\* How a block of code completes: it returns a value or it throws an Error.
\* An async function that returns resolves its promise, one that throws rejects it.
Return(value) == [kind |-> "return", value |-> value]
Throw(message) == [kind |-> "throw", value |-> message]

\* a getMockResponse that resolves with the bare string of MOCK_RESPONSES
getMockResponse_Bare(task) == Return(MOCK_RESPONSES(task))

\* resolve(`(Mock Response) ${mockText}`) when the timer fires
getMockResponse(task) == Return("(Mock Response) " \o MOCK_RESPONSES(task))

\* the try block of callApiFromClient
ClientTry(o) ==
    IF o.kind = "throw" THEN Throw(o.message)                  \* generateContent threw
    ELSE IF ~Truthy(o.text)
         THEN Return("The AI service returned an empty response. Please try again.")
         ELSE Return(o.text)

callApiFromClient(o) ==
    IF ClientTry(o).kind = "throw"
    THEN IF IncludesApiKeyOrPermission(ClientTry(o).value)
         THEN Return("The local API key is invalid or has insufficient permissions. Please check your .env file.")
         ELSE Return("An error occurred while calling the Gemini API. Check the console for details.")
    ELSE ClientTry(o)

\* the try block of callApiFromServerless
ServerlessTry(o) ==
    IF o.kind = "reject" THEN Throw(o.message)                 \* fetch threw
    ELSE IF ~o.json THEN Throw(o.message)                      \* response.json() threw
    ELSE IF ~ResponseOk(o.status)
         THEN Throw(IF Truthy(o.error) THEN o.error
                    ELSE "Failed to fetch from serverless function.")
         ELSE Return(o.text)

callApiFromServerless(o) ==
    IF ServerlessTry(o).kind = "throw"
    THEN Return("An error occurred while communicating with the server: "
                \o ServerlessTry(o).value)
    ELSE ServerlessTry(o)

\* a selection that goes direct whenever a key is present, DEV or not
StrategiesInvoked_KeyOnly(mock, dev, hasKey) ==
    IF mock THEN <<"mock">>
    ELSE IF hasKey THEN <<"direct">>
    ELSE <<"proxied">>

\* The strategies analyzeImageWithGemini invokes, in the order it invokes them.
StrategiesInvoked(mock, dev, hasKey) ==
    IF mock THEN <<"mock">>
    ELSE IF dev /\ hasKey THEN <<"direct">>
    ELSE <<"proxied">>

\* The outcomes the environment can produce for a strategy.
OutcomesOf(strategy) ==
    CASE strategy = "mock"    -> {[kind |-> "timer"]}
      [] strategy = "direct"  -> SdkOutcomes
      [] strategy = "proxied" -> FetchOutcomes

\* How analyzeImageWithGemini completes once the strategy it invoked has settled.
analyzeImageWithGemini(task, strategy, o) ==
    CASE strategy = "mock"    -> getMockResponse(task)
      [] strategy = "direct"  -> callApiFromClient(o)
      [] strategy = "proxied" -> callApiFromServerless(o)

(***************************************************************************)
(* The state as one record, so that a handler is a function of states.     *)
(***************************************************************************)
Cur ==
    [isProcessing |-> isProcessing, statusMessage |-> statusMessage,
     currentLangCode |-> currentLangCode, isMockMode |-> isMockMode,
     cameraError |-> cameraError, activeTaskRef |-> activeTaskRef,
     isSpeaking |-> isSpeaking, voices |-> voices, location |-> location,
     locationError |-> locationError,
     isRequestingLocation |-> isRequestingLocation,
     isListening |-> isListening, speechError |-> speechError,
     synth |-> synth, recognition |-> recognition, sessionLang |-> sessionLang,
     aborted |-> aborted,
     camera |-> camera, calls |-> calls, changes |-> changes,
     lastEvent |-> lastEvent]

(***************************************************************************)
(* useTextToSpeech (part_009): speak(text, lang) returns a promise.        *)
(* An utterance of synth is [text, lang, awaiter, phase]: awaiter names    *)
(* the async function suspended on the promise ("none" when the promise    *)
(* is dropped), phase is "pending" (queued, onstart not fired), "speaking", or, once    *)
(* cancel() removed it, "canceled" (it had not begun) or "interrupted"     *)
(* (it had), both waiting for their error event to be delivered.           *)
(***************************************************************************)
SpeakRejectsAtOnce(text) == ~Truthy(text)

\* window.speechSynthesis.cancel(): the live utterance, if any, is the last
\* of the queue; what is left of it is the error event it still has to deliver
SynthCancel(q) ==
    IF q = <<>> \/ q[Len(q)].phase \notin {"pending", "speaking"} THEN q
    ELSE [q EXCEPT ![Len(q)] =
            [text |-> "", lang |-> "", awaiter |-> @.awaiter,
             phase |-> IF @.phase = "pending" THEN "canceled" ELSE "interrupted"]]

speak(s, text, lang, awaiter) ==
    IF SpeakRejectsAtOnce(text) THEN s
    ELSE [s EXCEPT !.synth = Append(SynthCancel(@),
                                    [text |-> text, lang |-> lang,
                                     awaiter |-> awaiter, phase |-> "pending"])]

(***************************************************************************)
(* useSpeechRecognition (part_010): startListening as a closure of the     *)
(* render with isListening = listeningAtRender.                            *)
(***************************************************************************)
startListening(s, listeningAtRender) ==
    IF listeningAtRender THEN s
    ELSE IF s.recognition = "idle"
         THEN [s EXCEPT !.recognition = "starting"]        \* recognition.start()
         ELSE \* start() throws InvalidStateError: the catch block
              [s EXCEPT !.speechError = "Could not start recognition. Is another instance running?",
                        !.isListening = FALSE]

\* startListening(lang: string = 'en-US'): the language of a call that
\* passes no argument
DefaultLang == "en-US"

\* recognitionRef.current.lang = lang, ahead of recognition.start()
startListeningIn(s, lang, listeningAtRender) ==
    IF listeningAtRender \/ s.recognition # "idle"
    THEN startListening(s, listeningAtRender)
    ELSE [startListening(s, listeningAtRender) EXCEPT !.sessionLang = lang]

(***************************************************************************)
(* CameraView.captureFrame: a frame only from a playing stream.            *)
(***************************************************************************)
captureFrame(cam) == IF cam = "streaming" THEN "<base64 jpeg>" ELSE ""

(***************************************************************************)
(* App.runAnalysis up to its first await.                                  *)
(***************************************************************************)
BuildPrompt(task, userQuery, loc) ==
    TASK_PROMPTS(task)
    \o (IF task = FIND_SHOP /\ Truthy(userQuery)
        THEN " The user is looking for: \"" \o userQuery \o "\"." ELSE "")
    \o (IF loc # null
        THEN " Current GPS coordinates are Latitude: <latitude>, Longitude: <longitude>."
        ELSE "")

runAnalysis(s, task, userQuery) ==
    LET s1 == [s EXCEPT !.statusMessage = UI_STRINGS(s.currentLangCode, "status_processing"),
                        !.isProcessing = task]
        base64Image == captureFrame(s.camera)
    IN  IF ~Truthy(base64Image)
        THEN [speak([s1 EXCEPT !.statusMessage = "Failed to capture image."],
                    "Failed to capture image.", s.currentLangCode, "none")
                EXCEPT !.isProcessing = null]
        ELSE [s1 EXCEPT !.calls = Append(@,
                 [task |-> task,
                  prompt |-> BuildPrompt(task, userQuery, s.location),
                  lang |-> s.currentLangCode,
                  mock |-> s.isMockMode])]

\* a handleSpeechResult that leaves the pending task in place
handleSpeechResult_KeepsPending(s, transcript) ==
    IF s.activeTaskRef # null
    THEN runAnalysis(s, s.activeTaskRef, transcript)
    ELSE s

\* App.handleSpeechResult
handleSpeechResult(s, transcript) ==
    IF s.activeTaskRef # null
    THEN [runAnalysis(s, s.activeTaskRef, transcript) EXCEPT !.activeTaskRef = null]
    ELSE s

\* The guard of App.handleTaskClick
Busy(s) == s.isProcessing # null \/ s.isSpeaking \/ s.isListening

\* App.handleTaskClick up to its first await
handleTaskClick(s, task) ==
    IF Busy(s) THEN s
    ELSE IF task = FIND_SHOP
         THEN speak([s EXCEPT !.activeTaskRef = task,
                              !.statusMessage = UI_STRINGS(s.currentLangCode, "shop_prompt")],
                    UI_STRINGS(s.currentLangCode, "shop_prompt"),
                    s.currentLangCode, "handleTaskClick")
         ELSE runAnalysis(s, task, null)

\* The disabled prop of the four ActionButtons
ButtonDisabled(s) ==
    s.isProcessing # null \/ s.isSpeaking \/ s.isListening \/ s.cameraError # null

(***************************************************************************)
(* The code after an await on speak(...), run when the promise settles.    *)
(***************************************************************************)
SpeechErrorMessage(code) == "Speech synthesis error: " \o code

AfterSpeak(s, awaiter, resolved, code) ==
    CASE awaiter = "runAnalysis" ->
            IF resolved THEN [s EXCEPT !.isProcessing = null] ELSE s
      [] awaiter = "handleTaskClick" ->
            IF resolved THEN startListeningIn(s, DefaultLang, FALSE)   \* startListening()
            ELSE [s EXCEPT !.statusMessage = SpeechErrorMessage(code)]
      [] OTHER -> s

(***************************************************************************)
(* The effects of the render that follows a step.  n is the state the      *)
(* handlers left; the unprimed variables are the state of the previous     *)
(* render, against which React compares each effect's dependencies.        *)
(***************************************************************************)
\* const error = cameraError || locationError || speechError
ErrorOf(s) ==
    IF s.cameraError # null THEN s.cameraError
    ELSE IF s.locationError # null THEN s.locationError
    ELSE s.speechError

\* [cameraError, locationError, speechError, speak, currentLangCode]; speak
\* is a new function whenever voices is a new array
ErrorDepsChanged(n) ==
    \/ n.cameraError # cameraError
    \/ n.locationError # locationError
    \/ n.speechError # speechError
    \/ n.voices # voices
    \/ n.currentLangCode # currentLangCode

ErrorEffect(n) ==
    IF ErrorDepsChanged(n) /\ ErrorOf(n) # null
    THEN speak([n EXCEPT !.statusMessage = ErrorOf(n)], ErrorOf(n),
               n.currentLangCode, "none")
    ELSE n

\* [isRequestingLocation, isListening, isProcessing, isSpeaking, currentLangCode]
StatusDepsChanged(n) ==
    \/ n.isRequestingLocation # isRequestingLocation
    \/ n.isListening # isListening
    \/ n.isProcessing # isProcessing
    \/ n.isSpeaking # isSpeaking
    \/ n.currentLangCode # currentLangCode

StatusEffect(n, s) ==
    IF ~StatusDepsChanged(n) THEN s
    ELSE IF n.isRequestingLocation
         THEN [s EXCEPT !.statusMessage = UI_STRINGS(n.currentLangCode, "status_location")]
    ELSE IF n.isListening
         THEN [s EXCEPT !.statusMessage = UI_STRINGS(n.currentLangCode, "status_listening")]
    ELSE IF n.isProcessing = null /\ ~n.isSpeaking
         THEN [s EXCEPT !.statusMessage = UI_STRINGS(n.currentLangCode, "status_ready")]
    ELSE s

\* useSpeechRecognition's effect depends on [onResult] = handleSpeechResult,
\* which is new whenever runAnalysis is: [currentLangCode, location,
\* isMockMode, speak].  Its cleanup aborts the instance, its body makes a new one.
OnResultChanged(n) ==
    \/ n.currentLangCode # currentLangCode
    \/ n.location # location
    \/ n.isMockMode # isMockMode
    \/ n.voices # voices

RecognitionEffect(n, s) ==
    IF OnResultChanged(n)
    THEN [s EXCEPT !.aborted = IF s.recognition # "idle" THEN @ + 1 ELSE @,
                   !.recognition = "idle"]
    ELSE s

Render(n) == RecognitionEffect(n, StatusEffect(n, ErrorEffect(n)))

WithinBounds(r) ==
    /\ Len(r.synth) <= MaxUtterances
    /\ Len(r.calls) <= MaxCalls
    /\ r.aborted <= MaxAborted
    /\ r.voices <= MaxVoicesChanged
    /\ r.changes <= MaxSettingsChanges

Commit(handled, op, arg) ==
    \E n \in {handled} : \E r \in {Render(n)} :
        /\ WithinBounds(r)
        /\ isProcessing' = r.isProcessing
        /\ statusMessage' = r.statusMessage
        /\ currentLangCode' = r.currentLangCode
        /\ isMockMode' = r.isMockMode
        /\ cameraError' = r.cameraError
        /\ activeTaskRef' = r.activeTaskRef
        /\ isSpeaking' = r.isSpeaking
        /\ voices' = r.voices
        /\ location' = r.location
        /\ locationError' = r.locationError
        /\ isRequestingLocation' = r.isRequestingLocation
        /\ isListening' = r.isListening
        /\ speechError' = r.speechError
        /\ synth' = r.synth
        /\ recognition' = r.recognition
        /\ sessionLang' = IF r.recognition = "idle" THEN "" ELSE r.sessionLang
        /\ aborted' = r.aborted
        /\ camera' = r.camera
        /\ calls' = r.calls
        /\ changes' = r.changes
        /\ lastEvent' = [op |-> op, arg |-> arg]
        /\ UNCHANGED besideApp

(***************************************************************************)
(* The state after mount: the first render, its effects (requestLocation,  *)
(* the status effect, getUserMedia called) and the render they cause.      *)
(***************************************************************************)
AppInit ==
    /\ isProcessing = null
    /\ statusMessage = UI_STRINGS("en-US", "status_location")
    /\ currentLangCode = "en-US"
    /\ isMockMode = FALSE
    /\ cameraError = null
    /\ activeTaskRef = null
    /\ isSpeaking = FALSE
    /\ voices = 0
    /\ location = null
    /\ locationError = null
    /\ isRequestingLocation = TRUE
    /\ isListening = FALSE
    /\ speechError = null
    /\ synth = <<>>
    /\ recognition = "idle"
    /\ sessionLang = ""
    /\ aborted = 0
    /\ camera = "acquiring"
    /\ calls = <<>>
    /\ changes = 0
    /\ lastEvent = [op |-> "mount", arg |-> ""]

\* no call of the service is followed on its own
NoCall ==
    [pc |-> "idle", task |-> null, isMockMode |-> FALSE, dev |-> FALSE,
     hasKey |-> FALSE, invoked |-> <<>>, outcome |-> null, completion |-> null]

\* no transcript is followed on its own
NoCommand == [pc |-> "idle", command |-> <<>>, task |-> null]

\* the earlier App component is not followed
NoEarlierApp == [mounted |-> FALSE]

\* no promise of speak is followed
NoPromises == [isSpeaking |-> FALSE, synth |-> <<>>, promises |-> <<>>,
               lastEvent |-> [op |-> "mount", arg |-> ""]]

\* no request to the serverless function, no service worker and no
\* CameraView is followed on its own
NoRequest == [pc |-> "idle"]
NoWorker == [pc |-> "none"]
NoView == [mounted |-> FALSE]

NothingElseFollowed ==
    /\ proxy = NoRequest
    /\ worker = NoWorker
    /\ view = NoView

\* the components followed on their own are at rest
OthersAtRest ==
    /\ service = NoCall
    /\ resolution = NoCommand
    /\ earlier = NoEarlierApp
    /\ tts = NoPromises
    /\ NothingElseFollowed

Init == AppInit /\ OthersAtRest

(***************************************************************************)
(* Steps: the user                                                         *)
(***************************************************************************)
\* the buttons the user of the model taps
TappedTasks == {FIND_BUS, FIND_SHOP}

\* a click on an enabled ActionButton
TaskClick(task) ==
    /\ ~ButtonDisabled(Cur)
    /\ Commit(handleTaskClick(Cur, task), "handleTaskClick", "")

\* the languages the user of the model selects
SelectedLanguages == {"en-US", "hi-IN"}

\* SettingsModal: onLangChange = setCurrentLangCode
SetLanguage(code) ==
    /\ code # currentLangCode
    /\ Commit([Cur EXCEPT !.currentLangCode = code, !.changes = @ + 1],
              "setCurrentLangCode", "")

\* SettingsModal: onMockModeChange = setIsMockMode
SetMockMode(enabled) ==
    /\ enabled # isMockMode
    /\ Commit([Cur EXCEPT !.isMockMode = enabled, !.changes = @ + 1],
              "setIsMockMode", "")

(***************************************************************************)
(* Steps: camera, geolocation, voice list                                  *)
(***************************************************************************)
CameraStreaming ==
    /\ camera = "acquiring"
    /\ Commit([Cur EXCEPT !.camera = "streaming"], "getUserMedia", "stream")

CameraFailed ==
    /\ camera = "acquiring"
    /\ Commit([Cur EXCEPT !.camera = "failed",
                          !.cameraError = "Camera access denied or unavailable: <err.message>. Please grant camera permissions."],
              "onCameraError", "")

LocationMessage(code) ==
    CASE code = "PERMISSION_DENIED"    -> "Location access denied."
      [] code = "POSITION_UNAVAILABLE" -> "Location information is unavailable."
      [] code = "TIMEOUT"              -> "The request to get user location timed out."
      [] OTHER                         -> "An unknown error occurred."

PositionErrors == {"PERMISSION_DENIED"}

LocationSuccess ==
    /\ isRequestingLocation
    /\ Commit([Cur EXCEPT !.location = "coords", !.isRequestingLocation = FALSE],
              "getCurrentPosition", "success")

LocationFailure(code) ==
    /\ isRequestingLocation
    /\ Commit([Cur EXCEPT !.locationError = LocationMessage(code),
                          !.isRequestingLocation = FALSE],
              "getCurrentPosition", "error")

VoicesChanged ==
    /\ voices < MaxVoicesChanged
    /\ Commit([Cur EXCEPT !.voices = @ + 1], "onvoiceschanged", "")

(***************************************************************************)
(* Steps: the analysis call settles (runAnalysis after its first await)    *)
(***************************************************************************)
RemoveAt(q, i) == SubSeq(q, 1, i - 1) \o SubSeq(q, i + 1, Len(q))

\* a runAnalysis that leaves the call it awaited in flight, to settle again
AnalysisSettled_Reissued(s, i, completion) ==
    IF completion.kind = "throw" THEN s
    ELSE speak([s EXCEPT !.statusMessage = completion.value],
               completion.value, s.calls[i].lang, "runAnalysis")

\* const result = await analyzeImageWithGemini(...): a rejection leaves
\* runAnalysis there; otherwise setStatusMessage(result);
\* await speak(result, currentLangCode)
AnalysisSettled(s, i, completion) ==
    IF completion.kind = "throw" THEN [s EXCEPT !.calls = RemoveAt(@, i)]
    ELSE speak([s EXCEPT !.calls = RemoveAt(@, i), !.statusMessage = completion.value],
               completion.value, s.calls[i].lang, "runAnalysis")

\* The outcomes the session is run against: for each strategy a success,
\* and for the proxied one also a lost connection and a 200 body without text.
SessionOutcomes(strategy) ==
    CASE strategy = "mock"    -> OutcomesOf("mock")
      [] strategy = "direct"  -> {o \in SdkOutcomes : o.kind = "response" /\ o.text = AI_TEXT}
      [] strategy = "proxied" ->
            {o \in FetchOutcomes :
                \/ o.kind = "reject"
                \/ /\ o.kind = "response" /\ o.json /\ o.status = 200
                   /\ o.error = undefined /\ o.text \in {AI_TEXT, undefined}}

\* DEV and VITE_API_KEY are constants of the build; the model lets every
\* call see any build.
ResultsOf(call) ==
    UNION { UNION { {analyzeImageWithGemini(call.task, StrategiesInvoked(call.mock, dev, hasKey)[k], o) :
                        o \in SessionOutcomes(StrategiesInvoked(call.mock, dev, hasKey)[k])} :
                    k \in DOMAIN StrategiesInvoked(call.mock, dev, hasKey) } :
            dev \in BOOLEAN, hasKey \in BOOLEAN }

AnalysisResolve(i) ==
    /\ i \in 1..Len(calls)
    /\ \E completion \in ResultsOf(calls[i]) :
          Commit(AnalysisSettled(Cur, i, completion), "analysisSettled", "")

(***************************************************************************)
(* Steps: events of the utterances, delivered in the order the engine      *)
(* queued them                                                             *)
(***************************************************************************)
\* utterance.onstart
UttStart ==
    /\ synth # <<>>
    /\ Head(synth).phase = "pending"
    /\ Commit([Cur EXCEPT !.synth = [@ EXCEPT ![1].phase = "speaking"],
                          !.isSpeaking = TRUE],
              "utterance.onstart", "")

\* utterance.onend
UttEnd ==
    /\ synth # <<>>
    /\ Head(synth).phase = "speaking"
    /\ Commit(AfterSpeak([Cur EXCEPT !.synth = Tail(@), !.isSpeaking = FALSE],
                         Head(synth).awaiter, TRUE, ""),
              "utterance.onend", "")

\* How the promise of speak settles at the last event of its utterance:
\* onend (code "") resolves it, onerror rejects it unless event.error is
\* 'interrupted'
PromiseOutcome(code) ==
    IF code = "" THEN "resolved"
    ELSE IF code # "interrupted" THEN "rejected"
    ELSE "resolved"

\* utterance.onerror(event)
onerror(s, awaiter, code) ==
    AfterSpeak([s EXCEPT !.isSpeaking = FALSE], awaiter,
               PromiseOutcome(code) = "resolved", code)

SynthesisErrors == {"synthesis-failed"}

\* the engine fails to speak the utterance
UttError(code) ==
    /\ synth # <<>>
    /\ Head(synth).phase \in {"pending", "speaking"}
    /\ Commit(onerror([Cur EXCEPT !.synth = Tail(@)], Head(synth).awaiter, code),
              "utterance.onerror", "")

\* the error event of an utterance that cancel() removed
UttCancelled ==
    /\ synth # <<>>
    /\ Head(synth).phase \in {"canceled", "interrupted"}
    /\ Commit(onerror([Cur EXCEPT !.synth = Tail(@)], Head(synth).awaiter,
                      Head(synth).phase),
              "utterance.onerror", "")

(***************************************************************************)
(* Steps: events of the recognition instances                              *)
(***************************************************************************)
Transcripts == {"pharmacy", ""}
RecognitionErrors == {"no-speech"}

RecognitionErrorMessage(code) ==
    "Speech recognition error: " \o code \o ". Please ensure microphone access is granted."

\* recognition.onstart
RecOnStart ==
    /\ recognition = "starting"
    /\ Commit([Cur EXCEPT !.recognition = "listening", !.isListening = TRUE,
                          !.speechError = null],
              "recognition.onstart", "")

\* recognition.onresult
RecOnResult(transcript) ==
    /\ recognition = "listening"
    /\ Commit([handleSpeechResult([Cur EXCEPT !.recognition = "ending"], transcript)
                  EXCEPT !.isListening = FALSE],
              "recognition.onresult", transcript)

\* recognition.onerror(event)
RecognitionOnError(s, code) ==
    [s EXCEPT !.speechError = IF code # "aborted" THEN RecognitionErrorMessage(code) ELSE @,
              !.isListening = FALSE]

RecOnError(code) ==
    /\ recognition \in {"starting", "listening"}
    /\ Commit(RecognitionOnError([Cur EXCEPT !.recognition = "ending"], code),
              "recognition.onerror", "")

\* recognition.onend, after a result or an error, or with nothing recognized
RecOnEnd ==
    /\ recognition \in {"listening", "ending"}
    /\ Commit([Cur EXCEPT !.recognition = "idle", !.isListening = FALSE],
              "recognition.onend", "")

\* the error ('aborted') and end events of an instance the cleanup aborted
AbortedInstanceEnd ==
    /\ aborted > 0
    /\ Commit([RecognitionOnError([Cur EXCEPT !.aborted = @ - 1], "aborted")
                  EXCEPT !.isListening = FALSE],
              "recognition.onend", "")

(***************************************************************************)
(* The specification                                                       *)
(***************************************************************************)
Next ==
    \/ \E task \in TappedTasks : TaskClick(task)
    \/ \E code \in SelectedLanguages : SetLanguage(code)
    \/ \E enabled \in BOOLEAN : SetMockMode(enabled)
    \/ CameraStreaming
    \/ CameraFailed
    \/ LocationSuccess
    \/ \E code \in PositionErrors : LocationFailure(code)
    \/ VoicesChanged
    \/ \E i \in 1..MaxCalls : AnalysisResolve(i)
    \/ UttStart
    \/ UttEnd
    \/ \E code \in SynthesisErrors : UttError(code)
    \/ UttCancelled
    \/ RecOnStart
    \/ \E transcript \in Transcripts : RecOnResult(transcript)
    \/ \E code \in RecognitionErrors : RecOnError(code)
    \/ RecOnEnd
    \/ AbortedInstanceEnd

Spec == Init /\ [][Next]_vars

(***************************************************************************)
(* One call of analyzeImageWithGemini followed on its own, for every task, *)
(* every setting of mock mode, every build (DEV, VITE_API_KEY) and every   *)
(* outcome of the call the chosen strategy makes.                          *)
(***************************************************************************)
ServiceCalls ==
    {[NoCall EXCEPT !.pc = "called", !.task = task, !.isMockMode = mock,
                    !.dev = dev, !.hasKey = hasKey] :
        task \in AssistanceTask, mock \in BOOLEAN, dev \in BOOLEAN, hasKey \in BOOLEAN}

InitService ==
    /\ AppInit
    /\ service \in ServiceCalls
    /\ resolution = NoCommand
    /\ earlier = NoEarlierApp
    /\ tts = NoPromises
    /\ NothingElseFollowed

\* the tests of analyzeImageWithGemini, up to the strategy's own await
SelectStrategy ==
    /\ service.pc = "called"
    /\ service' = [service EXCEPT
           !.pc = "awaiting",
           !.invoked = StrategiesInvoked(service.isMockMode, service.dev, service.hasKey)]
    /\ UNCHANGED besideService

\* the call the strategy awaits settles with outcome o
Settled(strategy, o) ==
    [service EXCEPT !.pc = "settled", !.outcome = o,
                    !.completion = analyzeImageWithGemini(service.task, strategy, o)]

Awaiting(strategy) ==
    /\ service.pc = "awaiting"
    /\ service.invoked # <<>>
    /\ service.invoked[Len(service.invoked)] = strategy

\* setTimeout(..., 1500) of getMockResponse
MockTimerFires ==
    /\ Awaiting("mock")
    /\ \E o \in OutcomesOf("mock") : service' = Settled("mock", o)
    /\ UNCHANGED besideService

\* await ai.models.generateContent(...)
GenerateContentSettles ==
    /\ Awaiting("direct")
    /\ \E o \in OutcomesOf("direct") : service' = Settled("direct", o)
    /\ UNCHANGED besideService

\* await fetch(...) and await response.json()
FetchSettles ==
    /\ Awaiting("proxied")
    /\ \E o \in OutcomesOf("proxied") : service' = Settled("proxied", o)
    /\ UNCHANGED besideService

NextService ==
    \/ SelectStrategy
    \/ MockTimerFires
    \/ GenerateContentSettles
    \/ FetchSettles

SpecService == InitService /\ [][NextService]_vars

(***************************************************************************)
(* Properties of the session                                               *)
(***************************************************************************)
\* no task awaited or spoken, nothing spoken, nothing listened to
Idle == isProcessing = null /\ ~isSpeaking /\ ~isListening

\* an utterance the engine has still to speak or is speaking
Live(u) == u.phase \in {"pending", "speaking"}

\* every provider call has completed: the camera and the location request
\* have answered, no analysis is in flight, every utterance and every
\* recognition instance has delivered its last event
Quiescent ==
    /\ camera # "acquiring"
    /\ ~isRequestingLocation
    /\ calls = <<>>
    /\ synth = <<>>
    /\ recognition = "idle"
    /\ aborted = 0

\* C1: in every reachable state at most one of awaiting-analysis
\* (isProcessing non-null), speaking (isSpeaking) and listening (isListening)
\* is true.  Capturing is synchronous and is no state of its own.
C1_MutualExclusion ==
    /\ ~(isProcessing # null /\ isSpeaking)
    /\ ~(isProcessing # null /\ isListening)
    /\ ~(isSpeaking /\ isListening)

\* C1: a state in which the session speaks and listens at the same time
C1_SpeakingWhileListening == isSpeaking /\ isListening

\* C2: recognition is started (recognition.start() by the continuation of
\* handleTaskClick) only in the step that delivers the end of the prompt's
\* utterance, and no utterance is queued or being spoken when it starts.
C2_ListenOnlyAfterPrompt ==
    [][(recognition = "idle" /\ recognition' = "starting")
          => /\ lastEvent'.op = "utterance.onend"
             /\ \A i \in DOMAIN synth' : ~Live(synth'[i])]_vars

\* C3: once every provider call has completed, whatever errors they
\* reported, the task buttons are enabled again: no value left in the state
\* keeps them disabled.
C3_ControlsEnabledAfterErrors == Quiescent => ~ButtonDisabled(Cur)

\* C4: once every provider call has completed, with success or failure, the
\* session is Idle: isProcessing is null, isSpeaking and isListening are false.
C4_IdleWhenAllCompleted == Quiescent => Idle

\* isProcessing is set although no analysis is in flight, no utterance is
\* awaited by runAnalysis or handleTaskClick and the recognizer is idle
Stuck ==
    /\ isProcessing # null
    /\ calls = <<>>
    /\ recognition = "idle"
    /\ \A i \in DOMAIN synth : synth[i].awaiter = "none"

\* C4, what the code does instead: a session that is Stuck stays Stuck
\* whatever the user and the providers do next, so it never returns to Idle.
C4_StuckStaysStuck == [][Stuck => Stuck']_vars

\* a FindShop sub-dialog or an analysis is under way: its prompt is queued
\* or spoken, the recognizer is starting or listening, the analysis is in
\* flight, or its result is queued or spoken
ActionInProgress ==
    \/ \E i \in DOMAIN synth :
          Live(synth[i]) /\ synth[i].awaiter \in {"handleTaskClick", "runAnalysis"}
    \/ recognition \in {"starting", "listening"}
    \/ calls # <<>>
    \/ ~Idle

\* C5: a click on a task button that arrives while an action is in progress
\* changes nothing of the session and starts no analysis, speech or listening.
C5_BusyGuard ==
    [][(lastEvent'.op = "handleTaskClick" /\ ActionInProgress)
          => /\ calls' = calls
             /\ synth' = synth
             /\ recognition' = recognition
             /\ isProcessing' = isProcessing
             /\ activeTaskRef' = activeTaskRef
             /\ statusMessage' = statusMessage]_vars

\* the FindShop sub-dialog is under way: from the accepted click, while the
\* prompt is queued or spoken, until the recognizer has stopped listening
SubDialogActive ==
    \/ \E i \in DOMAIN synth : synth[i].awaiter = "handleTaskClick"
    \/ recognition \in {"starting", "listening"}
    \/ isListening

\* C6: activeTaskRef.current is null or FIND_SHOP, and it is non-null only
\* while the FindShop sub-dialog is under way; it is null in every other state.
C6_PendingTaskOnlyInSubDialog ==
    /\ activeTaskRef \in {null, FIND_SHOP}
    /\ activeTaskRef # null => SubDialogActive

(***************************************************************************)
(* Properties of the deferred FindShop request                             *)
(***************************************************************************)
\* the prompts of a FindShop analysis that carries the transcript as its
\* user query, with and without the GPS clause
PromptsCarrying(transcript) ==
    {TASK_PROMPTS(FIND_SHOP) \o " The user is looking for: \"" \o transcript \o "\"." \o gps :
        gps \in {"", " Current GPS coordinates are Latitude: <latitude>, Longitude: <longitude>."}}

\* the prompts of a FindShop analysis without a user query
PromptsWithoutQuery ==
    {TASK_PROMPTS(FIND_SHOP) \o gps :
        gps \in {"", " Current GPS coordinates are Latitude: <latitude>, Longitude: <longitude>."}}

SettlesCall(i) ==
    /\ lastEvent'.op = "analysisSettled"
    /\ i \in DOMAIN calls
    /\ calls' = RemoveAt(calls, i)

C10_ResolvesToNonEmptyString ==
    service.pc = "settled"
        => /\ service.completion.kind = "return"
           /\ Truthy(service.completion.value)

(***************************************************************************)
(* Properties of the proxied strategy                                      *)
(***************************************************************************)
\* the class of failure an outcome of fetch belongs to
FailureClass(o) ==
    IF o.kind = "reject" THEN "connection failed"
    ELSE IF o.status >= 500 THEN "service unavailable"
    ELSE IF o.status \in {401, 403} THEN "not authorized"
    ELSE "none"

\* C11: the proxied strategy answers a response of status 500 or more, a
\* response of status 401 or 403 and a rejected fetch with three pairwise
\* different strings, whatever the body of the response says: two failures
\* get the same string exactly when they are of the same class.
C11_FailureClassesDistinguished ==
    (/\ service.pc = "settled"
     /\ service.invoked = <<"proxied">>
     /\ FailureClass(service.outcome) # "none")
        => \A o \in FetchOutcomes :
              FailureClass(o) # "none"
                 => ((callApiFromServerless(o) = service.completion)
                        <=> (FailureClass(o) = FailureClass(service.outcome)))

\* C11: a 401 whose body carries the error text of a 500 is answered with
\* the very string that 500 is answered with
C11_UnauthorizedAnsweredAsUnavailable ==
    /\ service.pc = "settled"
    /\ service.invoked = <<"proxied">>
    /\ service.outcome.kind = "response"
    /\ service.outcome.status = 401
    /\ \E o \in FetchOutcomes :
          /\ o.kind = "response"
          /\ o.status = 500
          /\ callApiFromServerless(o) = service.completion

(***************************************************************************)
(* The earlier App component (src/App.tsx 92-319): handleVoiceCommand.     *)
(* A transcript is a sequence of characters, so that toLowerCase and       *)
(* includes do to it what they do to a JavaScript string.                  *)
(***************************************************************************)
UpperCaseLetters ==
    <<"A", "B", "C", "D", "E", "F", "G", "H", "I", "J", "K", "L", "M",
      "N", "O", "P", "Q", "R", "S", "T", "U", "V", "W", "X", "Y", "Z">>
LowerCaseLetters ==
    <<"a", "b", "c", "d", "e", "f", "g", "h", "i", "j", "k", "l", "m",
      "n", "o", "p", "q", "r", "s", "t", "u", "v", "w", "x", "y", "z">>

\* String.prototype.toLowerCase
toLowerCase(str) ==
    [i \in DOMAIN str |->
        IF \E k \in DOMAIN UpperCaseLetters : UpperCaseLetters[k] = str[i]
        THEN LowerCaseLetters[CHOOSE k \in DOMAIN UpperCaseLetters :
                                  UpperCaseLetters[k] = str[i]]
        ELSE str[i]]

\* String.prototype.includes
includes(str, searchString) ==
    \E i \in 1..(Len(str) - Len(searchString) + 1) :
        SubSeq(str, i, i + Len(searchString) - 1) = searchString

\* the fragments handleVoiceCommand looks for
bus == <<"b", "u", "s">>
cross == <<"c", "r", "o", "s", "s">>
road == <<"r", "o", "a", "d">>
explore == <<"e", "x", "p", "l", "o", "r", "e">>
around == <<"a", "r", "o", "u", "n", "d">>
shop == <<"s", "h", "o", "p">>
store == <<"s", "t", "o", "r", "e">>

\* a resolution that looks for the shop before it looks for the bus
VoiceCommandTask_ShopFirst(command) ==
    LET lowerCaseCommand == toLowerCase(command)
    IN  IF includes(lowerCaseCommand, shop) \/ includes(lowerCaseCommand, store)
        THEN FIND_SHOP
        ELSE IF includes(lowerCaseCommand, bus) THEN FIND_BUS
        ELSE IF includes(lowerCaseCommand, cross) \/ includes(lowerCaseCommand, road)
        THEN CROSS_ROAD
        ELSE IF includes(lowerCaseCommand, explore) \/ includes(lowerCaseCommand, around)
        THEN EXPLORE
        ELSE null

\* the value of the local variable task of handleVoiceCommand at its test
VoiceCommandTask(command) ==
    LET lowerCaseCommand == toLowerCase(command)
    IN  IF includes(lowerCaseCommand, bus) THEN FIND_BUS
        ELSE IF includes(lowerCaseCommand, cross) \/ includes(lowerCaseCommand, road)
        THEN CROSS_ROAD
        ELSE IF includes(lowerCaseCommand, explore) \/ includes(lowerCaseCommand, around)
        THEN EXPLORE
        ELSE IF includes(lowerCaseCommand, shop) \/ includes(lowerCaseCommand, store)
        THEN FIND_SHOP
        ELSE null

\* The words recognition hears; a transcript is up to MaxWords of them,
\* separated by a space.
MaxWords == 2
Words ==
    { <<"B", "u", "s">>, <<"b", "u", "s", "e", "s">>,
      <<"c", "r", "o", "s", "s", "i", "n", "g">>, <<"R", "O", "A", "D">>,
      <<"b", "r", "o", "a", "d">>,
      <<"E", "x", "p", "l", "o", "r", "e">>, <<"a", "r", "o", "u", "n", "d">>,
      <<"S", "H", "O", "P">>, <<"r", "e", "s", "t", "o", "r", "e">>,
      <<"h", "e", "l", "l", "o">>, <<"b", "u">>, <<"s", "h">> }

RECURSIVE Phrases(_)
Phrases(n) ==
    IF n = 0 THEN {<<>>}
    ELSE Phrases(n - 1)
         \cup {w : w \in Words}
         \cup {p \o <<" ">> \o w : p \in Phrases(n - 1) \ {<<>>}, w \in Words}

VoiceCommands == Phrases(MaxWords)

InitCommand ==
    /\ AppInit
    /\ service = NoCall
    /\ earlier = NoEarlierApp
    /\ tts = NoPromises
    /\ NothingElseFollowed
    /\ \E command \in VoiceCommands :
          resolution = [pc |-> "heard", command |-> command, task |-> null]

\* handleVoiceCommand(command), up to its test of task
ResolveCommand ==
    /\ resolution.pc = "heard"
    /\ resolution' = [resolution EXCEPT !.pc = "resolved",
                                        !.task = VoiceCommandTask(resolution.command)]
    /\ UNCHANGED besideResolution

NextCommand == ResolveCommand

SpecCommand == InitCommand /\ [][NextCommand]_vars

(***************************************************************************)
(* Properties of the resolution of a voice command                         *)
(***************************************************************************)
\* the rules of the resolution, in the order they are tried
ResolutionRules ==
    << [task |-> FIND_BUS,   fragments |-> {bus}],
       [task |-> CROSS_ROAD, fragments |-> {cross, road}],
       [task |-> EXPLORE,    fragments |-> {explore, around}],
       [task |-> FIND_SHOP,  fragments |-> {shop, store}] >>

\* fragment occurs in str when lower and upper case are taken as one
OccursIn(fragment, str) ==
    \E before, after \in 0..Len(str) :
        /\ before + Len(fragment) + after = Len(str)
        /\ \A k \in 1..Len(fragment) :
              \/ str[before + k] = fragment[k]
              \/ \E l \in DOMAIN LowerCaseLetters :
                    /\ LowerCaseLetters[l] = fragment[k]
                    /\ UpperCaseLetters[l] = str[before + k]

RuleMatches(k, str) == \E f \in ResolutionRules[k].fragments : OccursIn(f, str)

\* C12: the task a transcript resolves to is that of the first rule, in the
\* order bus, cross/road, explore/around, shop/store, one of whose fragments
\* the lower-cased transcript contains; a transcript that contains none
\* resolves to no task.
C12_FirstMatchingRuleWins ==
    resolution.pc = "resolved"
        => /\ \A k \in DOMAIN ResolutionRules :
                 (/\ RuleMatches(k, resolution.command)
                  /\ \A j \in 1..(k - 1) : ~RuleMatches(j, resolution.command))
                    => resolution.task = ResolutionRules[k].task
           /\ (\A k \in DOMAIN ResolutionRules : ~RuleMatches(k, resolution.command))
                 => resolution.task = null
           /\ resolution.command = <<"S", "H", "O", "P", " ", "B", "u", "s">>
                 => resolution.task = FIND_BUS
           /\ resolution.command = <<"b", "r", "o", "a", "d">>
                 => resolution.task = CROSS_ROAD
           /\ resolution.command = <<"b", "u", " ", "s", "h">>
                 => resolution.task = null

\* C12: a transcript that names the shop before the bus, in upper case, has
\* been resolved to FIND_BUS
C12_ShopAndBusResolved ==
    /\ resolution.pc = "resolved"
    /\ resolution.command = <<"S", "H", "O", "P", " ", "B", "u", "s">>
    /\ resolution.task = FIND_BUS

(***************************************************************************)
(* The earlier App component (src/App.tsx 92-319) with the hooks of its    *)
(* time: useTextToSpeech (src/hooks/useTextToSpeech.ts, whose speak        *)
(* returns nothing), useSpeechRecognition (src/unnamed/part_011, whose     *)
(* cleanup stops the instance) and CameraView.  Its state is the record    *)
(* earlier; a handler is a function of such records, and takes the values  *)
(* its closure captured as a record c.                                     *)
(***************************************************************************)
MaxStopped == 1         \* stopped recognition instances with a pending event
MaxRequests == 2        \* calls of getUserMedia

\* ---- localStorage: the text of a number, the text of a boolean ----
Digits == <<"0", "1", "2", "3", "4", "5", "6", "7", "8", "9">>
IsDigit(c) == \E k \in DOMAIN Digits : Digits[k] = c

\* newIndex.toString(), of an index that is not negative
RECURSIVE toString(_)
toString(n) ==
    IF n < 10 THEN <<Digits[n + 1]>>
    ELSE toString(n \div 10) \o <<Digits[(n % 10) + 1]>>

\* the number the leading digits of str spell, after the digits that spell acc
RECURSIVE LeadingDigits(_, _)
LeadingDigits(str, acc) ==
    IF str = <<>> \/ ~IsDigit(Head(str)) THEN acc
    ELSE LeadingDigits(Tail(str),
                       10 * acc + (CHOOSE k \in DOMAIN Digits : Digits[k] = Head(str)) - 1)

\* NaN, a number that is no index and equals none
NaN == -1000

\* parseInt(str, 10): leading blanks are skipped, a sign is read, the digits
\* that follow are the number; without a digit there, NaN
RECURSIVE parseInt(_)
parseInt(str) ==
    IF str # <<>> /\ Head(str) = " " THEN parseInt(Tail(str))
    ELSE IF str # <<>> /\ Head(str) = "-"
         THEN IF Len(str) > 1 /\ IsDigit(str[2]) THEN 0 - LeadingDigits(Tail(str), 0) ELSE NaN
    ELSE IF str # <<>> /\ IsDigit(Head(str)) THEN LeadingDigits(str, 0)
    ELSE NaN

JSON_stringify(enabled) == IF enabled THEN "true" ELSE "false"
JSON_parse(text) == text = "true"

\* LANGUAGES[index].code, LANGUAGES.findIndex(l => l.code === code)
LanguageAt(index) ==
    IF index \in 0..(Len(LANGUAGES) - 1) THEN LANGUAGES[index + 1] ELSE undefined
findIndex(code) ==
    IF \E k \in DOMAIN LANGUAGES : LANGUAGES[k] = code
    THEN (CHOOSE k \in DOMAIN LANGUAGES : LANGUAGES[k] = code) - 1
    ELSE 0 - 1

\* ---- strings ----
TASK_LABELS(lang, task) == "<label of " \o task \o " in " \o lang \o ">"
analyzing(lang, label) == "Analyzing for: " \o label \o "... [" \o lang \o "]"
iHeard(lang, command) == "I heard: \"" \o command \o "\" [" \o lang \o "]"

\* the transcripts the session hears, and the characters they are made of
SpokenCommands == {"find bus", "hello"}
Characters(command) ==
    CASE command = "find bus" -> <<"f", "i", "n", "d", " ", "b", "u", "s">>
      [] command = "hello"    -> <<"h", "e", "l", "l", "o">>

\* ---- the state after mount, from what localStorage holds ----
\* useState(() => ...) twice; the first render throws at currentLang.code
\* when LANGUAGES[languageIndex] is undefined, and React unmounts the App
EarlierMount(storage) ==
    LET idx == IF storage.urbanSenseLanguageIndex # <<>>
               THEN parseInt(storage.urbanSenseLanguageIndex) ELSE 0
    IN  [mounted |-> TRUE,
         storage |-> storage,
         crashed |-> LanguageAt(idx) = undefined,
         isSessionActive |-> FALSE, isProcessing |-> null, isSettingsOpen |-> FALSE,
         languageIndex |-> idx,
         isMockMode |-> IF Truthy(storage.urbanSenseMockMode)
                        THEN JSON_parse(storage.urbanSenseMockMode) ELSE FALSE,
         lastResponse |-> "", error |-> "",
         isSpeaking |-> FALSE, voices |-> 0,
         isListening |-> FALSE, speechError |-> null,
         synth |-> <<>>, recognition |-> "idle", stopped |-> <<>>,
         camera |-> "off", stream |-> FALSE, pending |-> <<>>,
         requests |-> 0, cameraErrors |-> 0,
         calls |-> <<>>, changes |-> 0,
         lastEvent |-> [op |-> "mount", arg |-> ""]]

\* localStorage of a browser that never ran the App: getItem returns null
NoStorage == [urbanSenseLanguageIndex |-> <<>>, urbanSenseMockMode |-> null]

\* what the callbacks of one render captured
Closure(s) ==
    [isProcessing |-> s.isProcessing, isSpeaking |-> s.isSpeaking,
     languageIndex |-> s.languageIndex, isMockMode |-> s.isMockMode]

\* ---- handlers ----
handleStartSession(s, c) ==
    speak([s EXCEPT !.isSessionActive = TRUE,
                    !.lastResponse = UI_STRINGS(LanguageAt(c.languageIndex), "welcome")],
          UI_STRINGS(LanguageAt(c.languageIndex), "welcome"),
          LanguageAt(c.languageIndex), "none")

\* handleTaskSelect up to its await; the rest is EarlierAnalysisSettled
handleTaskSelect(s, c, task) ==
    IF c.isProcessing # null \/ c.isSpeaking THEN s
    ELSE LET lang == LanguageAt(c.languageIndex)
             analyzingText == analyzing(lang, TASK_LABELS(lang, task))
             errorMsg == "Could not capture an image from the camera."
             s1 == speak([s EXCEPT !.error = "", !.isProcessing = task,
                                   !.lastResponse = analyzingText],
                         analyzingText, lang, "none")
         IN  IF ~Truthy(captureFrame(s.camera)) /\ ~c.isMockMode
             THEN [speak([s1 EXCEPT !.error = errorMsg, !.lastResponse = errorMsg],
                         errorMsg, lang, "none")
                     EXCEPT !.isProcessing = null]
             ELSE [s1 EXCEPT !.calls = Append(@,
                      [task |-> task,
                       prompt |-> TASK_PROMPTS(task) \o " Please respond in <name of " \o lang \o ">.",
                       lang |-> lang,
                       mock |-> c.isMockMode])]

\* setLastResponse(result); speak(result, currentLang.code); setIsProcessing(null)
EarlierAnalysisSettled(s, i, completion) ==
    IF completion.kind = "throw" THEN [s EXCEPT !.calls = RemoveAt(@, i)]
    ELSE speak([s EXCEPT !.calls = RemoveAt(@, i), !.lastResponse = completion.value,
                         !.isProcessing = null],
               completion.value, s.calls[i].lang, "none")

handleCameraError(s, c, errorMessage) ==
    speak([s EXCEPT !.error = errorMessage, !.lastResponse = errorMessage],
          errorMessage, LanguageAt(c.languageIndex), "none")

handleVoiceCommand(s, c, command) ==
    LET lang == LanguageAt(c.languageIndex)
        heard == [s EXCEPT !.lastResponse = iHeard(lang, command)]
        task == VoiceCommandTask(Characters(command))
    IN  IF task # null THEN handleTaskSelect(heard, c, task)
        ELSE speak([heard EXCEPT !.lastResponse = UI_STRINGS(lang, "commandSorry")],
                   UI_STRINGS(lang, "commandSorry"), lang, "none")

handleLanguageChange(s, newLangCode) ==
    LET newIndex == findIndex(newLangCode)
    IN  IF newIndex # 0 - 1 /\ newIndex # s.languageIndex
        THEN [s EXCEPT !.languageIndex = newIndex,
                       !.storage.urbanSenseLanguageIndex = toString(newIndex),
                       !.changes = @ + 1]
        ELSE s

handleMockModeChange(s, enabled) ==
    [s EXCEPT !.isMockMode = enabled,
              !.storage.urbanSenseMockMode = JSON_stringify(enabled),
              !.changes = @ + 1]

anyActionInProgress(s) ==
    s.isProcessing # null \/ s.isSpeaking \/ s.isListening \/ Truthy(s.error)
    \/ s.isSettingsOpen

\* ---- the effects of the render that follows a step: p is the state of ----
\* ---- the previous render, n the state the handlers left               ----
\* CameraView's effect, [onCameraError]: handleCameraError is new whenever
\* speak or currentLang.code is.  Its cleanup stops the tracks of the stream
\* its own run obtained, if it has obtained it; its body calls getUserMedia.
CameraViewEffect(p, n) ==
    IF n.isSessionActive
       /\ (~p.isSessionActive \/ n.voices # p.voices \/ n.languageIndex # p.languageIndex)
    THEN [n EXCEPT !.camera = IF n.stream THEN "stopped" ELSE @,
                   !.stream = FALSE,
                   !.pending = Append([k \in DOMAIN @ |-> [@[k] EXCEPT !.latest = FALSE]],
                                      [closure |-> Closure(n), latest |-> TRUE]),
                   !.requests = @ + 1]
    ELSE n

\* useSpeechRecognition's effect, [onResult]: handleVoiceCommand is new
\* whenever handleTaskSelect, speak or currentLang is
HandlerChanged(p, n) ==
    \/ n.isProcessing # p.isProcessing
    \/ n.isSpeaking # p.isSpeaking
    \/ n.voices # p.voices
    \/ n.languageIndex # p.languageIndex
    \/ n.isMockMode # p.isMockMode

\* its cleanup stops the instance, which keeps the onresult it was given
StopEffect(p, n, s) ==
    IF HandlerChanged(p, n)
    THEN [s EXCEPT !.stopped = IF s.recognition # "idle"
                               THEN Append(@, [phase |-> s.recognition, closure |-> Closure(p)])
                               ELSE @,
                   !.recognition = "idle"]
    ELSE s

\* [speechError, speak, currentLang.code]
SpeechErrorEffect(p, n, s) ==
    IF /\ (n.speechError # p.speechError \/ n.voices # p.voices
           \/ n.languageIndex # p.languageIndex)
       /\ Truthy(n.speechError)
    THEN speak([s EXCEPT !.error = n.speechError, !.lastResponse = n.speechError],
               n.speechError, LanguageAt(n.languageIndex), "none")
    ELSE s

\* [isListening, currentStrings]
ListeningEffect(p, n, s) ==
    IF (n.isListening # p.isListening \/ n.languageIndex # p.languageIndex) /\ n.isListening
    THEN [s EXCEPT !.lastResponse = UI_STRINGS(LanguageAt(n.languageIndex), "listening")]
    ELSE s

EarlierRender(p, n) ==
    ListeningEffect(p, n, SpeechErrorEffect(p, n, StopEffect(p, n, CameraViewEffect(p, n))))

EarlierWithinBounds(r) ==
    /\ Len(r.synth) <= MaxUtterances
    /\ Len(r.calls) <= MaxCalls
    /\ Len(r.stopped) <= MaxStopped
    /\ r.requests <= MaxRequests
    /\ r.voices <= MaxVoicesChanged
    /\ r.changes <= MaxSettingsChanges

EarlierCommit(handled, op, arg) ==
    /\ ~earlier.crashed
    /\ \E n \in {handled} : \E r \in {EarlierRender(earlier, n)} :
          /\ EarlierWithinBounds(r)
          /\ earlier' = [r EXCEPT !.lastEvent = [op |-> op, arg |-> arg]]
    /\ UNCHANGED besideEarlier

\* ---- steps: the user ----
StartSession ==
    /\ ~earlier.isSessionActive
    /\ EarlierCommit(handleStartSession(earlier, Closure(earlier)), "handleStartSession", "")

TaskTap(task) ==
    /\ earlier.isSessionActive
    /\ ~anyActionInProgress(earlier)
    /\ EarlierCommit(handleTaskSelect(earlier, Closure(earlier), task), "handleTaskSelect", task)

\* the microphone button or the space key
MicrophoneTap ==
    /\ earlier.isSessionActive
    /\ ~anyActionInProgress(earlier)
    /\ EarlierCommit(startListening(earlier, earlier.isListening), "startListening", "")

OpenSettings ==
    /\ earlier.isSessionActive
    /\ ~earlier.isSettingsOpen
    /\ earlier.isProcessing = null /\ ~earlier.isSpeaking /\ ~earlier.isListening
    /\ EarlierCommit([earlier EXCEPT !.isSettingsOpen = TRUE], "setIsSettingsOpen", "true")

CloseSettings ==
    /\ earlier.isSettingsOpen
    /\ EarlierCommit([earlier EXCEPT !.isSettingsOpen = FALSE], "setIsSettingsOpen", "false")

\* a radio button of the modal that is not the checked one
LanguageChange(newLangCode) ==
    /\ earlier.isSettingsOpen
    /\ newLangCode # LanguageAt(earlier.languageIndex)
    /\ EarlierCommit(handleLanguageChange(earlier, newLangCode), "handleLanguageChange", newLangCode)

MockModeChange ==
    /\ earlier.isSettingsOpen
    /\ EarlierCommit(handleMockModeChange(earlier, ~earlier.isMockMode), "handleMockModeChange", "")

\* the page is loaded again
Reload ==
    /\ earlier.lastEvent.op # "mount"
    /\ earlier' = EarlierMount(earlier.storage)
    /\ UNCHANGED besideEarlier

\* ---- steps: the providers ----
EarlierVoicesChanged ==
    /\ earlier.voices < MaxVoicesChanged
    /\ EarlierCommit([earlier EXCEPT !.voices = @ + 1], "onvoiceschanged", "")

\* getUserMedia resolves: videoRef.current.srcObject = stream
GetUserMediaResolves(i) ==
    /\ i \in DOMAIN earlier.pending
    /\ EarlierCommit([earlier EXCEPT !.pending = RemoveAt(@, i),
                                     !.camera = "streaming",
                                     !.stream = @ \/ earlier.pending[i].latest],
                     "getUserMedia", "stream")

\* getUserMedia rejects: onCameraError(...) of the render that asked
GetUserMediaRejects(i) ==
    /\ i \in DOMAIN earlier.pending
    /\ EarlierCommit(handleCameraError([earlier EXCEPT !.pending = RemoveAt(@, i),
                                                       !.cameraErrors = @ + 1],
                                       earlier.pending[i].closure,
                                       "Camera access denied or unavailable: <err.message>. Please grant camera permissions."),
                     "onCameraError", "")

EarlierAnalysisResolve(i) ==
    /\ i \in DOMAIN earlier.calls
    /\ \E completion \in ResultsOf(earlier.calls[i]) :
          EarlierCommit(EarlierAnalysisSettled(earlier, i, completion), "analysisSettled", "")

EarlierUttStart ==
    /\ earlier.synth # <<>>
    /\ Head(earlier.synth).phase = "pending"
    /\ EarlierCommit([earlier EXCEPT !.synth = [@ EXCEPT ![1].phase = "speaking"],
                                     !.isSpeaking = TRUE],
                     "utterance.onstart", "")

EarlierUttEnd ==
    /\ earlier.synth # <<>>
    /\ Head(earlier.synth).phase = "speaking"
    /\ EarlierCommit([earlier EXCEPT !.synth = Tail(@), !.isSpeaking = FALSE],
                     "utterance.onend", "")

\* utterance.onerror: of an utterance cancel() removed, or one the engine failed
EarlierUttError ==
    /\ earlier.synth # <<>>
    /\ EarlierCommit([earlier EXCEPT !.synth = Tail(@), !.isSpeaking = FALSE],
                     "utterance.onerror", "")

EarlierRecOnStart ==
    /\ earlier.recognition = "starting"
    /\ EarlierCommit([earlier EXCEPT !.recognition = "listening", !.isListening = TRUE,
                                     !.speechError = null],
                     "recognition.onstart", "")

\* recognition.onresult: onResult(transcript); setIsListening(false)
EarlierRecOnResult(transcript) ==
    /\ earlier.recognition = "listening"
    /\ EarlierCommit([handleVoiceCommand([earlier EXCEPT !.recognition = "ending"],
                                         Closure(earlier), transcript)
                         EXCEPT !.isListening = FALSE],
                     "recognition.onresult", transcript)

\* the codes of the error events the engine delivers on its own account:
\* nothing was said, the user agent ended the input
EngineErrors == {"no-speech", "aborted"}

\* recognition.onerror: every code sets the error
EarlierRecOnError(code) ==
    /\ earlier.recognition \in {"starting", "listening"}
    /\ EarlierCommit([earlier EXCEPT !.recognition = "ending",
                                     !.speechError = RecognitionErrorMessage(code),
                                     !.isListening = FALSE],
                     "recognition.onerror", code)

EarlierRecOnEnd ==
    /\ earlier.recognition \in {"listening", "ending"}
    /\ EarlierCommit([earlier EXCEPT !.recognition = "idle", !.isListening = FALSE],
                     "recognition.onend", "")

\* a stopped instance returns what it heard, to the onresult it was given
StoppedOnResult(transcript) ==
    /\ earlier.stopped # <<>>
    /\ Head(earlier.stopped).phase = "listening"
    /\ EarlierCommit([handleVoiceCommand([earlier EXCEPT !.stopped[1].phase = "ending"],
                                         Head(earlier.stopped).closure, transcript)
                         EXCEPT !.isListening = FALSE],
                     "stopped.onresult", transcript)

StoppedOnEnd ==
    /\ earlier.stopped # <<>>
    /\ EarlierCommit([earlier EXCEPT !.stopped = Tail(@), !.isListening = FALSE],
                     "stopped.onend", "")

\* ---- a session from an empty localStorage ----
InitEarlier ==
    /\ AppInit
    /\ service = NoCall
    /\ resolution = NoCommand
    /\ tts = NoPromises
    /\ NothingElseFollowed
    /\ earlier = EarlierMount(NoStorage)

EarlierTappedTasks == {FIND_BUS}

NextEarlier ==
    \/ StartSession
    \/ \E task \in EarlierTappedTasks : TaskTap(task)
    \/ MicrophoneTap
    \/ OpenSettings
    \/ CloseSettings
    \/ \E code \in SelectedLanguages : LanguageChange(code)
    \/ MockModeChange
    \/ EarlierVoicesChanged
    \/ \E i \in 1..MaxRequests : GetUserMediaResolves(i)
    \/ \E i \in 1..MaxRequests : GetUserMediaRejects(i)
    \/ \E i \in 1..MaxCalls : EarlierAnalysisResolve(i)
    \/ EarlierUttStart
    \/ EarlierUttEnd
    \/ EarlierUttError
    \/ EarlierRecOnStart
    \/ \E transcript \in SpokenCommands : EarlierRecOnResult(transcript)
    \/ \E code \in EngineErrors : EarlierRecOnError(code)
    \/ EarlierRecOnEnd
    \/ \E transcript \in SpokenCommands : StoppedOnResult(transcript)
    \/ StoppedOnEnd

SpecEarlier == InitEarlier /\ [][NextEarlier]_vars

(***************************************************************************)
(* Properties of the earlier App component                                 *)
(***************************************************************************)
\* the step hands a transcript to handleVoiceCommand
HearsCommand == earlier'.lastEvent.op \in {"recognition.onresult", "stopped.onresult"}

\* the apology of a locale, as speak queues it
Apology(lang) ==
    [text |-> UI_STRINGS(lang, "commandSorry"), lang |-> lang,
     awaiter |-> "none", phase |-> "pending"]

\* C13: when a transcript resolves to no task, the status text becomes the
\* unrecognized-command string of the active locale, speak is called with
\* that string and the code of the active locale, nothing is captured and no
\* analysis is dispatched, isProcessing stays null and listening is over; and
\* once that utterance has ended nothing is spoken or processed.
C13_UnresolvedCommandApologises ==
    [][/\ (HearsCommand /\ VoiceCommandTask(Characters(earlier'.lastEvent.arg)) = null)
          => /\ earlier'.lastResponse
                  = UI_STRINGS(LanguageAt(earlier.languageIndex), "commandSorry")
             /\ earlier'.synth # <<>>
             /\ earlier'.synth[Len(earlier'.synth)]
                  = Apology(LanguageAt(earlier.languageIndex))
             /\ earlier'.calls = earlier.calls
             /\ earlier'.error = earlier.error
             /\ earlier'.isProcessing = earlier.isProcessing
             /\ ~earlier'.isListening
       /\ (/\ earlier'.lastEvent.op = "utterance.onend"
           /\ \E lang \in {LANGUAGES[k] : k \in DOMAIN LANGUAGES} :
                 Head(earlier.synth).text = UI_STRINGS(lang, "commandSorry"))
          => ~earlier'.isSpeaking]_vars

\* C13: a stopped instance has handed a transcript that resolves to no task
\* to the handler of a render whose locale is no longer the active one
C13_ApologyInPreviousLocale ==
    /\ earlier.mounted
    /\ earlier.lastEvent.op = "stopped.onresult"
    /\ VoiceCommandTask(Characters(earlier.lastEvent.arg)) = null
    /\ earlier.languageIndex = 1
    /\ earlier.lastResponse = UI_STRINGS("en-US", "commandSorry")
    /\ earlier.synth[Len(earlier.synth)] = Apology("en-US")

\* C13, what holds instead: the apology is in the locale of the render that
\* made the recognition instance, which is the active one for an instance
\* that was not stopped.
C13_ApologyInLocaleOfItsRender ==
    [][/\ (HearsCommand /\ VoiceCommandTask(Characters(earlier'.lastEvent.arg)) = null)
          => LET lang == IF earlier'.lastEvent.op = "stopped.onresult"
                         THEN LanguageAt(Head(earlier.stopped).closure.languageIndex)
                         ELSE LanguageAt(earlier.languageIndex)
             IN  /\ earlier'.lastResponse = UI_STRINGS(lang, "commandSorry")
                 /\ earlier'.synth # <<>>
                 /\ earlier'.synth[Len(earlier'.synth)] = Apology(lang)
                 /\ earlier'.calls = earlier.calls
                 /\ earlier'.error = earlier.error
                 /\ earlier'.isProcessing = earlier.isProcessing
                 /\ ~earlier'.isListening
       /\ (/\ earlier'.lastEvent.op = "utterance.onend"
           /\ \E lang \in {LANGUAGES[k] : k \in DOMAIN LANGUAGES} :
                 Head(earlier.synth).text = UI_STRINGS(lang, "commandSorry"))
          => ~earlier'.isSpeaking]_vars

\* what a tap on the button of task leaves, in the state the transcript arrives in
Tapped(task) == handleTaskSelect(earlier, Closure(earlier), task)

\* what a task selection leaves behind: the status text, the error, the
\* task in progress, the utterances queued, the analysis dispatched
SameEffects(s, t) ==
    /\ s.lastResponse = t.lastResponse
    /\ s.error = t.error
    /\ s.isProcessing = t.isProcessing
    /\ s.synth = t.synth
    /\ s.calls = t.calls

\* C14: a transcript that resolves to a task has the effects of a tap on
\* the button of that task in the same state of the session, and is not
\* dropped: the task is in progress, or the failure to capture is reported.
C14_ResolvedCommandAsTap ==
    [][(HearsCommand /\ VoiceCommandTask(Characters(earlier'.lastEvent.arg)) # null)
          => /\ SameEffects(earlier', Tapped(VoiceCommandTask(Characters(earlier'.lastEvent.arg))))
             /\ \/ earlier'.isProcessing = VoiceCommandTask(Characters(earlier'.lastEvent.arg))
                \/ earlier'.error = "Could not capture an image from the camera."]_vars

\* C14: a stopped instance has handed "find bus" to a handler that captured
\* isSpeaking = false: the task is dispatched while the App is speaking, when
\* a tap on the button is refused
C14_CommandRunsWhileSpeaking ==
    /\ earlier.mounted
    /\ earlier.lastEvent.op = "stopped.onresult"
    /\ earlier.lastEvent.arg = "find bus"
    /\ earlier.isSpeaking
    /\ earlier.isProcessing = FIND_BUS
    /\ earlier.calls # <<>>

\* C14, what holds instead: a transcript an instance that was not stopped
\* hands over has the effects of a tap, and is not dropped.
C14_LiveCommandAsTap ==
    [][(/\ earlier'.lastEvent.op = "recognition.onresult"
        /\ VoiceCommandTask(Characters(earlier'.lastEvent.arg)) # null)
          => /\ SameEffects(earlier', Tapped(VoiceCommandTask(Characters(earlier'.lastEvent.arg))))
             /\ \/ earlier'.isProcessing = VoiceCommandTask(Characters(earlier'.lastEvent.arg))
                \/ earlier'.error = "Could not capture an image from the camera."]_vars

(***************************************************************************)
(* useTextToSpeech (part_009) on its own: any caller, any sequence of      *)
(* calls of speak, with the promise each call returned.  An utterance      *)
(* carries the number of its promise as awaiter.                           *)
(***************************************************************************)
MaxSpeakCalls == 4

SpokenTexts == {"Bus 42 is arriving.", ""}

\* speak(text, lang): the executor of the promise it returns
speakPromise(s, text, lang) ==
    IF SpeakRejectsAtOnce(text)
    THEN [s EXCEPT !.promises = Append(@, "rejected")]
    ELSE [speak(s, text, lang, Len(s.promises) + 1)
             EXCEPT !.promises = Append(@, "pending")]

SpeakCalled(text) ==
    /\ Len(tts.promises) < MaxSpeakCalls
    /\ tts' = [speakPromise(tts, text, "en-US") EXCEPT !.lastEvent = [op |-> "speak", arg |-> text]]
    /\ UNCHANGED besideSpeech

\* the last event of the first utterance of the queue: onend or onerror(code)
LastEvent(op, code) ==
    [tts EXCEPT !.synth = Tail(@),
                !.isSpeaking = FALSE,
                !.promises[Head(tts.synth).awaiter] = PromiseOutcome(code),
                !.lastEvent = [op |-> op, arg |-> code]]

SpeechOnStart ==
    /\ tts.synth # <<>>
    /\ Head(tts.synth).phase = "pending"
    /\ tts' = [tts EXCEPT !.synth[1].phase = "speaking", !.isSpeaking = TRUE,
                          !.lastEvent = [op |-> "utterance.onstart", arg |-> ""]]
    /\ UNCHANGED besideSpeech

SpeechOnEnd ==
    /\ tts.synth # <<>>
    /\ Head(tts.synth).phase = "speaking"
    /\ tts' = LastEvent("utterance.onend", "")
    /\ UNCHANGED besideSpeech

\* the engine fails to speak the utterance
SpeechOnError(code) ==
    /\ tts.synth # <<>>
    /\ Head(tts.synth).phase \in {"pending", "speaking"}
    /\ tts' = LastEvent("utterance.onerror", code)
    /\ UNCHANGED besideSpeech

\* the error event of an utterance that cancel() removed: 'canceled' when it
\* had not begun to be spoken, 'interrupted' when it had
SpeechOnCancelled ==
    /\ tts.synth # <<>>
    /\ Head(tts.synth).phase \in {"canceled", "interrupted"}
    /\ tts' = LastEvent("utterance.onerror", Head(tts.synth).phase)
    /\ UNCHANGED besideSpeech

\* utterance.onstart of the utterance that took the place of a removed one,
\* fired before the removed one's last event is delivered: the engine's
\* events of two utterances are not ordered with each other
SuccessorOnStart ==
    /\ Len(tts.synth) >= 2
    /\ Head(tts.synth).phase \in {"canceled", "interrupted"}
    /\ tts.synth[Len(tts.synth)].phase = "pending"
    /\ tts' = [tts EXCEPT !.synth[Len(tts.synth)].phase = "speaking",
                          !.isSpeaking = TRUE,
                          !.lastEvent = [op |-> "utterance.onstart", arg |-> "successor"]]
    /\ UNCHANGED besideSpeech

InitSpeech ==
    /\ AppInit
    /\ service = NoCall
    /\ resolution = NoCommand
    /\ earlier = NoEarlierApp
    /\ tts = NoPromises
    /\ NothingElseFollowed

NextSpeech ==
    \/ \E text \in SpokenTexts : SpeakCalled(text)
    \/ SpeechOnStart
    \/ SpeechOnEnd
    \/ \E code \in SynthesisErrors : SpeechOnError(code)
    \/ SpeechOnCancelled
    \/ SuccessorOnStart

SpecSpeech == InitSpeech /\ [][NextSpeech]_vars

(***************************************************************************)
(* Properties of speak                                                     *)
(***************************************************************************)
\* the utterances of a queue the engine has to speak or is speaking
LiveIn(q) == {k \in DOMAIN q : Live(q[k])}

\* what holds of speak whatever becomes of a removed utterance: a call with
\* text cancels what is live and queues its own utterance, at most one
\* utterance is live, a promise is pending exactly as long as its utterance
\* has events to deliver and never changes once settled, it resolves at
\* onend and rejects at once without text
SpeakSettlesOnce ==
    /\ Cardinality(LiveIn(tts'.synth)) <= 1
    /\ (tts'.lastEvent.op = "speak" /\ Truthy(tts'.lastEvent.arg))
          => /\ LiveIn(tts'.synth) = {Len(tts'.synth)}
             /\ tts'.synth[Len(tts'.synth)].phase = "pending"
             /\ tts'.synth[Len(tts'.synth)].text = tts'.lastEvent.arg
             /\ tts'.promises[Len(tts'.promises)] = "pending"
    /\ (tts'.lastEvent.op = "speak" /\ ~Truthy(tts'.lastEvent.arg))
          => /\ tts'.synth = tts.synth
             /\ tts'.promises[Len(tts'.promises)] = "rejected"
    /\ \A i \in DOMAIN tts.promises :
          tts.promises[i] # "pending" => tts'.promises[i] = tts.promises[i]
    /\ \A i \in DOMAIN tts'.promises :
          (tts'.promises[i] = "pending")
             <=> (\E k \in DOMAIN tts'.synth : tts'.synth[k].awaiter = i)
    /\ tts'.lastEvent.op = "utterance.onend"
          => tts'.promises[Head(tts.synth).awaiter] = "resolved"

\* C15: speak is last-call-wins: every call with text cancels the utterance
\* in flight before it queues its own, so at most one utterance is live; the
\* promise settles exactly once; it resolves at the natural end and when a
\* later call of speak removed the utterance, and rejects only for a
\* synthesis error that is not such a removal, or without text.
C15_LastCallWins ==
    [][/\ SpeakSettlesOnce
       /\ (/\ tts'.lastEvent.op = "utterance.onerror"
           /\ Head(tts.synth).phase \in {"canceled", "interrupted"})
             => tts'.promises[Head(tts.synth).awaiter] = "resolved"
       /\ (/\ tts'.lastEvent.op = "utterance.onerror"
           /\ Head(tts.synth).phase \notin {"canceled", "interrupted"})
             => tts'.promises[Head(tts.synth).awaiter] = "rejected"]_vars

\* C15: the promise of an utterance that a later call of speak removed
\* before it had begun is rejected
C15_RemovedBeforeItBeganRejects ==
    /\ tts.lastEvent = [op |-> "utterance.onerror", arg |-> "canceled"]
    /\ Len(tts.promises) >= 2
    /\ tts.promises[1] = "rejected"
    /\ tts.promises[2] = "pending"

\* C15, what holds instead: the promise resolves at onend and at the error
\* 'interrupted', which a removed utterance gets only when it had begun; at
\* every other error, 'canceled' among them, it rejects.
C15_ResolvesOnlyEndedOrInterrupted ==
    [][/\ SpeakSettlesOnce
       /\ tts'.lastEvent.op = "utterance.onerror"
             => tts'.promises[Head(tts.synth).awaiter]
                  = (IF tts'.lastEvent.arg = "interrupted" THEN "resolved" ELSE "rejected")
       /\ (/\ tts'.lastEvent.op = "utterance.onerror"
           /\ Head(tts.synth).phase \in {"canceled", "interrupted"})
             => tts'.lastEvent.arg = Head(tts.synth).phase]_vars

(***************************************************************************)
(* Properties of startListening                                            *)
(***************************************************************************)
\* the step settles the promise handleTaskClick awaits by resolving it, and
\* handleTaskClick goes on to call startListening()
StartListeningCalled ==
    /\ synth # <<>>
    /\ Head(synth).awaiter = "handleTaskClick"
    /\ \/ lastEvent'.op = "utterance.onend"
       \/ lastEvent'.op = "utterance.onerror" /\ Head(synth).phase = "interrupted"

\* C16: startListening is a no-op when recognition is already under way: a
\* call made after an earlier call has started recognition and before that
\* recognition has ended, also before onstart has set isListening, does not
\* start it again, sets no error and changes no state of the hook.
C16_StartListeningIdempotent ==
    [][(StartListeningCalled /\ recognition \in {"starting", "listening"})
          => /\ recognition' = recognition
             /\ speechError' = speechError
             /\ isListening' = isListening]_vars

\* C16: a call of startListening before onstart of the earlier one has left
\* the error of the catch block
C16_SecondStartThrows ==
    /\ lastEvent.op = "utterance.onend"
    /\ recognition = "starting"
    /\ speechError = "Could not start recognition. Is another instance running?"

(***************************************************************************)
(* Properties of recognition.onerror                                       *)
(***************************************************************************)
\* C17: a recognition error event with the code 'aborted' leaves the error
\* of the hook as it was, so it is neither shown nor spoken, and still sets
\* isListening to false; every other code sets the error shown to the user.
C17_AbortedNotSurfaced ==
    [][earlier'.lastEvent.op = "recognition.onerror"
          => /\ ~earlier'.isListening
             /\ earlier'.lastEvent.arg = "aborted"
                   => /\ earlier'.speechError = earlier.speechError
                      /\ earlier'.error = earlier.error
                      /\ earlier'.synth = earlier.synth
             /\ earlier'.lastEvent.arg # "aborted"
                   => earlier'.speechError = RecognitionErrorMessage(earlier'.lastEvent.arg)]_vars

\* C17: the error 'aborted' is shown and spoken
C17_AbortedShownAndSpoken ==
    /\ earlier.mounted
    /\ earlier.lastEvent = [op |-> "recognition.onerror", arg |-> "aborted"]
    /\ earlier.speechError = RecognitionErrorMessage("aborted")
    /\ earlier.error = RecognitionErrorMessage("aborted")
    /\ earlier.synth # <<>>
    /\ earlier.synth[Len(earlier.synth)].text = RecognitionErrorMessage("aborted")

\* C17, the later hook (part_010): the events of an aborted instance leave
\* speechError as it was and queue nothing to be spoken, isListening is
\* false after them; an error event of the engine sets its message.
C17_LaterHookSwallowsAborted ==
    [][/\ (lastEvent'.op = "recognition.onend" /\ aborted' = aborted - 1)
             => /\ speechError' = speechError
                /\ synth' = synth
                /\ ~isListening'
       /\ lastEvent'.op = "recognition.onerror"
             => /\ speechError' \in {RecognitionErrorMessage(code) : code \in RecognitionErrors}
                /\ ~isListening']_vars

(***************************************************************************)
(* The earlier App component and its two preferences: every value          *)
(* localStorage may hold when the page is loaded, the settings modal, and  *)
(* the page loaded again.                                                  *)
(***************************************************************************)
\* values of 'urbanSenseLanguageIndex': none, the indexes the App writes,
\* and strings another version of the page or the user left there
PersistedIndexes ==
    {<<>>, <<"0">>, <<"1">>, <<"2">>, <<"3">>, <<"-", "1">>, <<"x">>}

PersistedMockModes == {null, "true", "false"}

PersistedStores ==
    [urbanSenseLanguageIndex : PersistedIndexes, urbanSenseMockMode : PersistedMockModes]

\* the codes handleLanguageChange is called with: onLangChange takes any
\* string, the radio buttons pass the codes of LANGUAGES
RequestedCodes == {"en-US", "hi-IN", "es-ES", "fr-FR"}

InitPreferences ==
    /\ AppInit
    /\ service = NoCall
    /\ resolution = NoCommand
    /\ tts = NoPromises
    /\ NothingElseFollowed
    /\ earlier \in {EarlierMount(storage) : storage \in PersistedStores}

NextPreferences ==
    \/ StartSession
    \/ OpenSettings
    \/ CloseSettings
    \/ \E code \in RequestedCodes : LanguageChange(code)
    \/ MockModeChange
    \/ Reload
    \/ EarlierVoicesChanged
    \/ \E i \in 1..MaxRequests : GetUserMediaResolves(i)
    \/ \E i \in 1..MaxRequests : GetUserMediaRejects(i)
    \/ EarlierUttStart
    \/ EarlierUttEnd
    \/ EarlierUttError

SpecPreferences == InitPreferences /\ [][NextPreferences]_vars

(***************************************************************************)
(* Properties of the active locale                                         *)
(***************************************************************************)
RegisteredLocales == {LANGUAGES[k] : k \in DOMAIN LANGUAGES}

\* currentLang = LANGUAGES[languageIndex] is a registered locale
ActiveLocaleRegistered(s) ==
    /\ ~s.crashed
    /\ LanguageAt(s.languageIndex) \in RegisteredLocales

\* C18: in every reachable state, the initial state built from any persisted
\* 'urbanSenseLanguageIndex' included, the active locale is one of en-US,
\* hi-IN, es-ES, so its UI strings and task labels are defined; a call of
\* handleLanguageChange with an unregistered code leaves it unchanged.
C18_ActiveLocaleValid ==
    /\ [](earlier.mounted => ActiveLocaleRegistered(earlier))
    /\ [][(/\ earlier'.lastEvent.op = "handleLanguageChange"
           /\ earlier'.lastEvent.arg \notin RegisteredLocales)
             => earlier'.languageIndex = earlier.languageIndex]_vars

\* C18: the page loaded with a persisted index that is no index of
\* LANGUAGES: the first render throws
C18_PersistedIndexOutOfRange ==
    /\ earlier.mounted
    /\ earlier.storage.urbanSenseLanguageIndex = <<"3">>
    /\ earlier.languageIndex = 3
    /\ LanguageAt(earlier.languageIndex) = undefined
    /\ earlier.crashed

\* C18, what holds: from a store that holds no index or one the App wrote,
\* the active locale is registered in every state, whatever code the handler
\* is called with, and an unregistered code changes neither index nor store
C18_ValidFromOwnStore ==
    /\ [](/\ earlier.mounted
          /\ earlier.storage.urbanSenseLanguageIndex
                \in {<<>>} \cup {toString(k - 1) : k \in DOMAIN LANGUAGES}
             => ActiveLocaleRegistered(earlier))
    /\ [][(/\ earlier'.lastEvent.op = "handleLanguageChange"
           /\ earlier'.lastEvent.arg \notin RegisteredLocales)
             => /\ earlier'.languageIndex = earlier.languageIndex
                /\ earlier'.storage = earlier.storage]_vars

(***************************************************************************)
(* The later App component and its two settings: the settings modal, the   *)
(* providers, what is spoken, and the page loaded again.                   *)
(***************************************************************************)
\* the page is loaded again: every useState starts from its initial value
\* (the event keeps the language the page was left with)
Restart ==
    /\ lastEvent.op # "mount"
    /\ isProcessing' = null
    /\ statusMessage' = UI_STRINGS("en-US", "status_location")
    /\ currentLangCode' = "en-US"
    /\ isMockMode' = FALSE
    /\ cameraError' = null
    /\ activeTaskRef' = null
    /\ isSpeaking' = FALSE
    /\ voices' = 0
    /\ location' = null
    /\ locationError' = null
    /\ isRequestingLocation' = TRUE
    /\ isListening' = FALSE
    /\ speechError' = null
    /\ synth' = <<>>
    /\ recognition' = "idle"
    /\ sessionLang' = ""
    /\ aborted' = 0
    /\ camera' = "acquiring"
    /\ calls' = <<>>
    /\ changes' = 0
    /\ lastEvent' = [op |-> "mount", arg |-> currentLangCode]
    /\ UNCHANGED besideApp

NextSettings ==
    \/ \E code \in SelectedLanguages : SetLanguage(code)
    \/ \E enabled \in BOOLEAN : SetMockMode(enabled)
    \/ Restart
    \/ CameraStreaming
    \/ CameraFailed
    \/ LocationSuccess
    \/ \E code \in PositionErrors : LocationFailure(code)
    \/ VoicesChanged
    \/ UttStart
    \/ UttEnd
    \/ \E code \in SynthesisErrors : UttError(code)
    \/ UttCancelled

SpecSettings == Init /\ [][NextSettings]_vars

(***************************************************************************)
(* Properties of the persisted preferences                                 *)
(***************************************************************************)
\* C19: after any sequence of language changes and mock-mode toggles
\* followed by a restart, the session starts with the locale and the
\* mock-mode value that were selected last.
C19_SettingsSurviveRestart ==
    [][lastEvent'.op = "mount"
          => /\ currentLangCode' = currentLangCode
             /\ isMockMode' = isMockMode]_vars

\* C19: Hindi was selected and the page loaded again: the session starts in
\* English
C19_SelectionLostAtRestart ==
    /\ lastEvent = [op |-> "mount", arg |-> "hi-IN"]
    /\ currentLangCode = "en-US"

\* C19, the earlier App component: a restart starts with the language index
\* and the mock mode of the state before it; the store changes only in
\* handleLanguageChange and handleMockModeChange; after each of the two,
\* what a restart would read from the store is what is in memory.
C19_EarlierRoundTrip ==
    [][/\ earlier'.lastEvent.op = "mount"
             => /\ earlier'.languageIndex = earlier.languageIndex
                /\ earlier'.isMockMode = earlier.isMockMode
                /\ earlier'.storage = earlier.storage
       /\ earlier'.storage # earlier.storage
             => earlier'.lastEvent.op \in {"handleLanguageChange", "handleMockModeChange"}
       /\ earlier'.lastEvent.op \in {"handleLanguageChange", "handleMockModeChange"}
             => /\ EarlierMount(earlier'.storage).languageIndex = earlier'.languageIndex
                /\ EarlierMount(earlier'.storage).isMockMode = earlier'.isMockMode]_vars

(***************************************************************************)
(* Properties of the camera stream                                         *)
(***************************************************************************)
\* C20: within one session getUserMedia is called exactly once, when the
\* session starts; no later event (a failed captureFrame, a language change,
\* a new voice list, a new onCameraError) makes CameraView stop the stream
\* and ask again, and a failure to get the stream calls onCameraError once.
C20_CameraAcquiredOnce ==
    earlier.mounted
       => /\ earlier.requests = (IF earlier.isSessionActive THEN 1 ELSE 0)
          /\ earlier.cameraErrors <= 1
          /\ earlier.camera # "stopped"

\* C20: a language change has made CameraView stop the stream it had and
\* call getUserMedia again
C20_LanguageChangeAsksAgain ==
    /\ earlier.mounted
    /\ earlier.lastEvent.op = "handleLanguageChange"
    /\ earlier.requests = 2
    /\ earlier.camera = "stopped"
    /\ Len(earlier.pending) = 1

(***************************************************************************)
(* Properties of the failures of a session (later App component)           *)
(***************************************************************************)
\* after the step the status text is msg and speak has just been called
\* with msg
ShownAndSpoken(msg) ==
    /\ statusMessage' = msg
    /\ synth' # <<>>
    /\ synth'[Len(synth')].phase = "pending"
    /\ synth'[Len(synth')].text = msg

\* C21: every failure is surfaced twice: when the camera fails, a frame
\* cannot be captured, recognition reports an error, the location request
\* fails or the FindShop prompt cannot be spoken, the status text is the
\* error's message and speak is called with that same message.
C21_FailureShownAndSpoken ==
    [][/\ lastEvent'.op = "onCameraError" => ShownAndSpoken(cameraError')
       /\ lastEvent' = [op |-> "getCurrentPosition", arg |-> "error"]
             => ShownAndSpoken(ErrorOf([cameraError |-> cameraError',
                                        locationError |-> locationError',
                                        speechError |-> speechError']))
       /\ (lastEvent'.op = "recognition.onerror" /\ cameraError = null /\ locationError = null)
             => ShownAndSpoken(speechError')
       /\ (/\ lastEvent'.op = "recognition.onresult"
           /\ activeTaskRef # null
           /\ captureFrame(camera) = "")
             => ShownAndSpoken("Failed to capture image.")
       /\ (/\ lastEvent'.op = "utterance.onerror"
           /\ Head(synth).awaiter = "handleTaskClick"
           /\ Head(synth).phase # "interrupted")
             => \E code \in SynthesisErrors \cup {"canceled"} :
                   ShownAndSpoken(SpeechErrorMessage(code))]_vars

\* C21: the location request has failed: its message was handed to speak,
\* and the status text is the ready string
C21_LocationErrorNotShown ==
    /\ lastEvent = [op |-> "getCurrentPosition", arg |-> "error"]
    /\ cameraError = null
    /\ synth # <<>>
    /\ synth[Len(synth)].text = locationError
    /\ statusMessage = UI_STRINGS(currentLangCode, "status_ready")

InFlight ==
    (IF isRequestingLocation THEN {"geolocation"} ELSE {})
    \cup (IF calls # <<>> THEN {"analysis"} ELSE {})
    \cup (IF \E k \in DOMAIN synth : Live(synth[k]) THEN {"synthesis"} ELSE {})
    \cup (IF recognition \in {"starting", "listening"} THEN {"recognition"} ELSE {})

\* C23: in every reachable state at most one provider operation of the
\* session is in flight among the geolocation request, the analysis call,
\* speech synthesis and speech recognition; in particular no analysis is
\* under way and no utterance queued while the startup location request is
\* pending.
C23_OneSuspendingCall == Cardinality(InFlight) <= 1

\* C23: a task was tapped while the startup location request was pending:
\* its analysis call is in flight beside the request
C23_AnalysisBesideLocationRequest ==
    /\ lastEvent.op = "handleTaskClick"
    /\ InFlight = {"geolocation", "analysis"}

(***************************************************************************)
(* The serverless function analyzeImage, in its two versions               *)
(* (netlify/functions/analyzeImage.ts and part_004): one request from its  *)
(* arrival to the response.  The body of a request is kept as what it      *)
(* spells: nothing, text that is no JSON, the JSON null, a JSON number, or *)
(* a JSON object with or without the two fields.                           *)
(***************************************************************************)
HandlerVersions == {"analyzeImage.ts", "part_004"}

HttpMethods == {"POST", "GET"}

FieldValues == {undefined, "", "<value>"}

RequestBodies ==
    {[spells |-> k, base64Image |-> undefined, prompt |-> undefined] :
        k \in {"nothing", "no JSON", "null", "number"}}
    \cup
    {[spells |-> "object", base64Image |-> b, prompt |-> q] :
        b \in FieldValues, q \in FieldValues}

\* JSON.parse(event.body || "{}")
ParseBody(body) ==
    CASE body.spells = "nothing" -> Return([spells |-> "object", base64Image |-> undefined,
                                             prompt |-> undefined])
      [] body.spells = "no JSON" -> Throw("Unexpected token in JSON")
      [] OTHER                   -> Return(body)

\* const { base64Image, prompt } = requestBody: null cannot be destructured
Destructure(value) ==
    IF value.spells = "null" THEN Throw("Cannot destructure property 'base64Image' of null")
    ELSE Return(value)

\* return { statusCode, body: JSON.stringify({ text }) or ({ error }) }
Respond(statusCode, text, error) ==
    [then |-> "return", statusCode |-> statusCode, text |-> text, error |-> error]

\* the handler's promise rejects: no response of its own
Unhandled == [then |-> "throw", statusCode |-> 0, text |-> undefined, error |-> undefined]

\* the handler awaits ai.models.generateContent(...)
CallModel == [then |-> "await", statusCode |-> 0, text |-> undefined, error |-> undefined]

\* errorMessage.includes('API key')
IncludesApiKey(message) == message = "API key not valid. Please pass a valid API key."

\* the catch block of analyzeImage.ts
CatchAll(message) ==
    Respond(500, undefined,
            IF IncludesApiKey(message)
            THEN "The AI service API key is invalid or missing. Please check the application configuration."
            ELSE "An error occurred while processing the image with the AI service.")

\* the handler up to its first return, throw or await
handler(version, event) ==
    IF event.httpMethod # "POST"
    THEN Respond(405, undefined,
                 IF version = "part_004" THEN "This function only accepts POST requests."
                 ELSE "Method Not Allowed")
    ELSE IF ParseBody(event.body).kind = "throw"
    THEN IF version = "part_004"
         THEN Respond(400, undefined, "Invalid JSON format in request body.")
         ELSE CatchAll(ParseBody(event.body).value)
    ELSE IF Destructure(ParseBody(event.body).value).kind = "throw"
    THEN IF version = "part_004" THEN Unhandled
         ELSE CatchAll(Destructure(ParseBody(event.body).value).value)
    ELSE IF \/ ~Truthy(ParseBody(event.body).value.base64Image)
            \/ ~Truthy(ParseBody(event.body).value.prompt)
    THEN Respond(400, undefined,
                 IF version = "part_004"
                 THEN "Request body must contain 'base64Image' and 'prompt'."
                 ELSE "Missing base64Image or prompt in request body")
    ELSE CallModel

\* the handler after await ai.models.generateContent(...)
handlerAfterModel(version, o) ==
    IF o.kind = "throw"
    THEN IF version = "part_004"
         THEN Respond(500, undefined,
                      "An unexpected error occurred while communicating with the AI service. The issue has been logged.")
         ELSE CatchAll(o.message)
    ELSE IF ~Truthy(o.text)
    THEN IF version = "part_004"
         THEN Respond(200, "The AI analysis resulted in an empty response.", undefined)
         ELSE Respond(500, undefined, "The AI service returned an empty response.")
    ELSE Respond(200, o.text, undefined)

HandlerEvents == [httpMethod : HttpMethods, body : RequestBodies]

InitProxy ==
    /\ AppInit
    /\ service = NoCall
    /\ resolution = NoCommand
    /\ earlier = NoEarlierApp
    /\ tts = NoPromises
    /\ worker = NoWorker
    /\ view = NoView
    /\ proxy \in {[pc |-> "received", version |-> v, event |-> e, modelCalled |-> FALSE,
                   modelFailed |-> FALSE, response |-> Unhandled] :
                     v \in HandlerVersions, e \in HandlerEvents}

\* the handler runs to its first return, throw or await
HandlerRuns ==
    /\ proxy.pc = "received"
    /\ proxy' = IF handler(proxy.version, proxy.event).then = "await"
                THEN [proxy EXCEPT !.pc = "awaiting", !.modelCalled = TRUE]
                ELSE [proxy EXCEPT !.pc = "responded",
                                   !.response = handler(proxy.version, proxy.event)]
    /\ UNCHANGED besideProxy

\* ai.models.generateContent settles
ModelSettles(o) ==
    /\ proxy.pc = "awaiting"
    /\ proxy' = [proxy EXCEPT !.pc = "responded",
                              !.modelFailed = (o.kind = "throw"),
                              !.response = handlerAfterModel(proxy.version, o)]
    /\ UNCHANGED besideProxy

NextProxy ==
    \/ HandlerRuns
    \/ \E o \in SdkOutcomes : ModelSettles(o)

SpecProxy == InitProxy /\ [][NextProxy]_vars

(***************************************************************************)
(* Properties of the serverless function                                   *)
(***************************************************************************)
\* C24: for every request the handler answers 200 exactly when the body is
\* {text} with a non-empty string, and otherwise a 4xx or 5xx status with a
\* body {error}; a method other than POST gives 405, a body that is no valid
\* JSON gives 400, a missing or empty base64Image or prompt gives 400, and in
\* these three cases the model is not called; a failed model call gives 500.
C24_ProxyWireContract ==
    proxy.pc = "responded"
       => /\ \/ /\ proxy.response.statusCode = 200
                /\ Truthy(proxy.response.text)
                /\ proxy.response.error = undefined
             \/ /\ proxy.response.statusCode \in 400..599
                /\ Truthy(proxy.response.error)
                /\ proxy.response.text = undefined
          /\ proxy.event.httpMethod # "POST"
                => proxy.response.statusCode = 405 /\ ~proxy.modelCalled
          /\ (proxy.event.httpMethod = "POST" /\ proxy.event.body.spells = "no JSON")
                => proxy.response.statusCode = 400 /\ ~proxy.modelCalled
          /\ (/\ proxy.event.httpMethod = "POST"
              /\ proxy.event.body.spells \in {"nothing", "object"}
              /\ (~Truthy(proxy.event.body.base64Image) \/ ~Truthy(proxy.event.body.prompt)))
                => proxy.response.statusCode = 400 /\ ~proxy.modelCalled
          /\ proxy.modelFailed => proxy.response.statusCode = 500

\* C24: analyzeImage.ts has answered a POST whose body is no JSON with 500
C24_MalformedBodyAnswered500 ==
    /\ proxy.pc = "responded"
    /\ proxy.version = "analyzeImage.ts"
    /\ proxy.event.httpMethod = "POST"
    /\ proxy.event.body.spells = "no JSON"
    /\ proxy.response.statusCode = 500
    /\ ~proxy.modelCalled


\* C24, what holds: the handler of part_004 keeps the whole contract for
\* every request but a POST whose body is the JSON null
C24_LaterHandlerKeepsContract ==
    (/\ proxy.pc = "responded"
     /\ proxy.version = "part_004"
     /\ proxy.event.httpMethod = "POST" => proxy.event.body.spells # "null")
       => C24_ProxyWireContract

(***************************************************************************)
(* The service worker (sw.js, and part_000 with the same code): install,   *)
(* activate, and the fetch events of the pages it controls, one event from *)
(* its arrival to its response; cache.put completes later.  A cache is the *)
(* set of the URLs it holds a response for.                                *)
(***************************************************************************)
CACHE_NAME == "urbansense-cache-v1"
URLS_TO_CACHE == {"/", "/index.html", "/vite.svg"}

\* the caches an earlier worker of the origin may have left
OlderCacheNames == {"urbansense-cache-v0"}

RequestMethods == {"GET", "POST"}
RequestUrls ==
    {"/", "/assets/index.js", "/.netlify/functions/analyzeImage",
     "https://generativelanguage.googleapis.com/v1beta/models/gemini:generateContent"}
ResponseStatuses == {200, 404}

\* event.request.url.includes('googleapis.com')
IncludesGoogleApis(url) ==
    url = "https://generativelanguage.googleapis.com/v1beta/models/gemini:generateContent"

\* a worker that stores every response of status 200
StoresResponse_Any200(url, status) == status = 200

\* the network response of a GET is stored: not for a URL of googleapis.com,
\* and only with status 200
StoresResponse(url, status) ==
    IF IncludesGoogleApis(url) THEN FALSE ELSE status = 200

NoResponse == [from |-> "none", url |-> "", status |-> 0]

\* caches.match(request): in any cache of the origin
Cached(w, url) == \E name \in DOMAIN w.caches : url \in w.caches[name]

WorkerAt(older) ==
    [pc |-> "parsed",
     caches |-> [name \in older |-> {"/", "/old.js"}],
     request |-> [method |-> "", url |-> ""],
     step |-> "idle",
     fetched |-> FALSE,
     response |-> NoResponse,
     puts |-> {},
     lastEvent |-> "registered"]

\* install: caches.open(CACHE_NAME).then(cache => cache.addAll(URLS_TO_CACHE))
Install ==
    /\ worker.pc = "parsed"
    /\ worker' = [worker EXCEPT
                    !.pc = "installed",
                    !.caches = [name \in DOMAIN @ \cup {CACHE_NAME} |->
                                  IF name = CACHE_NAME THEN URLS_TO_CACHE ELSE @[name]],
                    !.lastEvent = "install"]
    /\ UNCHANGED besideWorker

\* activate: every cache that is not in the whitelist is deleted
Activate ==
    /\ worker.pc = "installed"
    /\ worker' = [worker EXCEPT
                    !.pc = "active",
                    !.caches = [name \in {n \in DOMAIN @ : n = CACHE_NAME} |-> @[name]],
                    !.lastEvent = "activate"]
    /\ UNCHANGED besideWorker

\* a fetch event arrives: a request that is not a GET is left to the browser
FetchEvent(method, url) ==
    /\ worker.pc = "active"
    /\ worker.step \in {"idle", "done"}
    /\ worker' = [worker EXCEPT
                    !.request = [method |-> method, url |-> url],
                    !.step = IF method # "GET" THEN "done" ELSE "matching",
                    !.fetched = FALSE,
                    !.response = NoResponse,
                    !.lastEvent = "fetch"]
    /\ UNCHANGED besideWorker

\* caches.match(event.request).then(cachedResponse => ...)
CacheMatch ==
    /\ worker.step = "matching"
    /\ worker' = IF Cached(worker, worker.request.url)
                 THEN [worker EXCEPT !.step = "done",
                                     !.response = [from |-> "cache",
                                                   url |-> worker.request.url,
                                                   status |-> 200],
                                     !.lastEvent = "match"]
                 ELSE [worker EXCEPT !.step = "fetching", !.fetched = TRUE,
                                     !.lastEvent = "match"]
    /\ UNCHANGED besideWorker

\* fetch(event.request).then(networkResponse => ...)
NetworkResponds(status) ==
    /\ worker.step = "fetching"
    /\ worker' = [worker EXCEPT
                    !.step = "done",
                    !.response = [from |-> "network", url |-> worker.request.url,
                                  status |-> status],
                    !.puts = IF StoresResponse(worker.request.url, status)
                             THEN @ \cup {worker.request.url} ELSE @,
                    !.lastEvent = "network response"]
    /\ UNCHANGED besideWorker

\* fetch rejects: the catch returns nothing
NetworkFails ==
    /\ worker.step = "fetching"
    /\ worker' = [worker EXCEPT !.step = "done", !.lastEvent = "network failure"]
    /\ UNCHANGED besideWorker

\* caches.open(CACHE_NAME).then(cache => cache.put(event.request, responseToCache))
CachePut(url) ==
    /\ url \in worker.puts
    /\ worker' = [worker EXCEPT
                    !.puts = @ \ {url},
                    !.caches = [name \in DOMAIN @ \cup {CACHE_NAME} |->
                                  IF name = CACHE_NAME
                                  THEN (IF CACHE_NAME \in DOMAIN @ THEN @[CACHE_NAME] ELSE {})
                                       \cup {url}
                                  ELSE @[name]],
                    !.lastEvent = "put"]
    /\ UNCHANGED besideWorker

InitWorker ==
    /\ AppInit
    /\ service = NoCall
    /\ resolution = NoCommand
    /\ earlier = NoEarlierApp
    /\ tts = NoPromises
    /\ proxy = NoRequest
    /\ view = NoView
    /\ worker \in {WorkerAt(older) : older \in SUBSET OlderCacheNames}

NextWorker ==
    \/ Install
    \/ Activate
    \/ \E method \in RequestMethods, url \in RequestUrls : FetchEvent(method, url)
    \/ CacheMatch
    \/ \E status \in ResponseStatuses : NetworkResponds(status)
    \/ NetworkFails
    \/ \E url \in RequestUrls : CachePut(url)

SpecWorker == InitWorker /\ [][NextWorker]_vars

(***************************************************************************)
(* Properties of the service worker                                        *)
(***************************************************************************)
\* the URLs some cache holds a response for
StoredUrls(w) == UNION {w.caches[name] : name \in DOMAIN w.caches}

\* C25: for every GET request a cached response, when there is one, is
\* returned without a network fetch; otherwise the network response is
\* returned, and it is stored only when its status is 200 and the URL does
\* not contain 'googleapis.com'; a request that is not a GET is neither
\* answered by the worker nor stored; once the worker is active every cache
\* with a name other than CACHE_NAME is deleted.
C25_CacheFirst ==
    /\ [](worker.pc = "active" => DOMAIN worker.caches \subseteq {CACHE_NAME})
    /\ [][/\ (worker'.lastEvent = "match" /\ Cached(worker, worker.request.url))
                => /\ worker'.response = [from |-> "cache", url |-> worker.request.url,
                                          status |-> 200]
                   /\ ~worker'.fetched
          /\ worker'.lastEvent = "network response"
                => /\ worker'.response.from = "network"
                   /\ worker'.response.url = worker.request.url
                   /\ (worker.request.url \in worker'.puts \ worker.puts)
                         => /\ worker'.response.status = 200
                            /\ ~IncludesGoogleApis(worker.request.url)
          /\ (worker'.lastEvent = "fetch" /\ worker'.request.method # "GET")
                => /\ worker'.step = "done"
                   /\ worker'.response = NoResponse
                   /\ ~worker'.fetched
                   /\ worker'.puts = worker.puts
          /\ StoredUrls(worker') # StoredUrls(worker)
                => \/ worker'.lastEvent \in {"install", "activate"}
                   \/ /\ worker'.lastEvent = "put"
                      /\ StoredUrls(worker') \ StoredUrls(worker) \subseteq worker.puts
          /\ worker'.puts \ worker.puts # {}
                => /\ worker'.lastEvent = "network response"
                   /\ worker.request.method = "GET"]_vars

\* C25: a script that the network delivered with status 200 has been stored
\* and the next GET for it is answered from the cache, without a fetch
C25_ServedFromCache ==
    /\ worker.pc = "active"
    /\ worker.lastEvent = "match"
    /\ worker.request = [method |-> "GET", url |-> "/assets/index.js"]
    /\ worker.response.from = "cache"
    /\ ~worker.fetched
    /\ ~(\E name \in OlderCacheNames : name \in DOMAIN worker.caches)


\* C26: isSpeaking tracks the engine: whatever the order of the calls of
\* speak and of the events of the current utterance and of the utterances
\* removed before it, isSpeaking is true while an utterance is being spoken
\* and false once no utterance is left; the late event of a removed
\* utterance does not clear the flag while its successor is being spoken.
C26_IsSpeakingTracksEngine ==
    /\ (\E k \in DOMAIN tts.synth : tts.synth[k].phase = "speaking") => tts.isSpeaking
    /\ tts.synth = <<>> => ~tts.isSpeaking

\* C26: the 'interrupted' error of a removed utterance arrived after its
\* successor had begun, and the flag is false while the successor is spoken
C26_ClearedWhileSuccessorSpoken ==
    /\ tts.lastEvent = [op |-> "utterance.onerror", arg |-> "interrupted"]
    /\ Len(tts.synth) = 1
    /\ tts.synth[1].phase = "speaking"
    /\ ~tts.isSpeaking

\* C26, what holds of the hook: the flag is the value its last event gave
\* it, true after onstart and false after onend and onerror of any
\* utterance, and it is false when the queue is empty
C26_FlagIsLastEvent ==
    /\ tts.lastEvent.op = "utterance.onstart" => tts.isSpeaking
    /\ tts.lastEvent.op \in {"utterance.onend", "utterance.onerror"} => ~tts.isSpeaking
    /\ tts.synth = <<>> => ~tts.isSpeaking


(***************************************************************************)
(* Properties of a listening session under renders                         *)
(***************************************************************************)
\* the steps that change a dependency of runAnalysis, and with it onResult
UnrelatedChanges ==
    {"getCurrentPosition", "onvoiceschanged", "setCurrentLangCode", "setIsMockMode"}

\* C27: a listening session is ended only by the recognizer: once
\* recognition has started, a step that only gives onResult a new identity
\* (a location fix, the voice list, a change of language or of mock mode)
\* neither aborts nor stops the recognition in progress, and the sub-query
\* still waits for its transcript.
C27_OnlyRecognizerEndsListening ==
    [][(/\ recognition \in {"starting", "listening"}
        /\ lastEvent'.op \in UnrelatedChanges)
          => /\ recognition' = recognition
             /\ aborted' = aborted]_vars

\* C27: the location fix arrived while the recognizer listened for the shop
\* to find; the instance was aborted and the one that replaced it was never
\* started
C27_AbortedByLocationFix ==
    /\ lastEvent = [op |-> "getCurrentPosition", arg |-> "success"]
    /\ activeTaskRef = FIND_SHOP
    /\ isListening
    /\ recognition = "idle"
    /\ aborted = 1

\* C27, what holds: each of these steps aborts the instance in progress,
\* but for a location request that fails, which leaves location as it was
C27_AbortedWhenOnResultChanges ==
    [][(/\ recognition \in {"starting", "listening"}
        /\ lastEvent'.op \in UnrelatedChanges)
          => IF lastEvent'.arg = "error"
             THEN recognition' = recognition /\ aborted' = aborted
             ELSE recognition' = "idle" /\ aborted' = aborted + 1]_vars


(***************************************************************************)
(* Properties of the announcement of errors                                *)
(***************************************************************************)
\* C28: each error is announced once: while an error value stays set, a
\* change of the active language or of speak's identity (the voice list
\* loaded) makes no call of speak, so no utterance in progress is cancelled
\* for it.
C28_ErrorAnnouncedOnce ==
    [][(/\ ErrorOf(Cur) # null
        /\ lastEvent'.op \in {"setCurrentLangCode", "onvoiceschanged"})
          => synth' = synth]_vars

\* C28: the voice list loaded while a task's result was being spoken and the
\* location error was still set: the result was cut off and the error is
\* queued to be spoken again
C28_ResultCutOffByRepeatedError ==
    /\ lastEvent.op = "onvoiceschanged"
    /\ locationError # null
    /\ cameraError = null
    /\ Len(synth) >= 2
    /\ synth[Len(synth) - 1].awaiter = "runAnalysis"
    /\ synth[Len(synth) - 1].phase = "interrupted"
    /\ synth[Len(synth)].text = locationError
    /\ synth[Len(synth)].phase = "pending"

\* C28, what holds: the error that is set is spoken at every step that
\* changes the language or the voice list, after cancelling what was live
C28_ErrorSpokenAtEveryChange ==
    [][(/\ ErrorOf(Cur) # null
        /\ lastEvent'.op \in {"setCurrentLangCode", "onvoiceschanged"})
          => /\ Len(synth') = Len(synth) + 1
             /\ synth'[Len(synth')].text = ErrorOf(Cur)
             /\ synth'[Len(synth')].lang = currentLangCode'
             /\ LiveIn(synth') = {Len(synth')}]_vars


(***************************************************************************)
(* CameraView on its own: the component is mounted and unmounted, its      *)
(* parent may hand it a new onCameraError, and each getUserMedia it called *)
(* settles when the browser decides.  A run of the effect is [settled,     *)
(* stream, cleaned]: how its getUserMedia settled, the MediaStream its     *)
(* variable stream holds ("none" for null, else "live" or "stopped"), and  *)
(* whether its cleanup has run.                                            *)
(***************************************************************************)
MaxEffectRuns == 3

\* the effect's body: let stream = null; enableCamera()
EffectBody(v) ==
    [v EXCEPT !.runs = Append(@, [settled |-> "pending", stream |-> "none",
                                  cleaned |-> FALSE])]

\* the effect's cleanup, of the latest run: if (stream) its tracks are stopped
EffectCleanup(v) ==
    IF v.runs = <<>> THEN v
    ELSE [v EXCEPT !.runs[Len(v.runs)] =
             [@ EXCEPT !.cleaned = TRUE,
                       !.stream = IF @ = "live" THEN "stopped" ELSE @]]

ViewMount ==
    /\ ~view.mounted
    /\ Len(view.runs) < MaxEffectRuns
    /\ view' = [EffectBody(view) EXCEPT !.mounted = TRUE, !.lastEvent = "mount"]
    /\ UNCHANGED besideView

\* a render with a new onCameraError: the cleanup, then the body again
ViewOnCameraErrorChanged ==
    /\ view.mounted
    /\ Len(view.runs) < MaxEffectRuns
    /\ view' = [EffectBody(EffectCleanup(view)) EXCEPT !.lastEvent = "onCameraError changed"]
    /\ UNCHANGED besideView

ViewUnmount ==
    /\ view.mounted
    /\ view' = [EffectCleanup(view) EXCEPT !.mounted = FALSE, !.srcObject = 0,
                                           !.lastEvent = "unmount"]
    /\ UNCHANGED besideView

\* stream = await getUserMedia(...) of run k; videoRef.current is the video
\* element as long as the component is mounted
ViewGetUserMediaResolves(k) ==
    /\ k \in DOMAIN view.runs
    /\ view.runs[k].settled = "pending"
    /\ view' = [view EXCEPT !.runs[k] = [@ EXCEPT !.settled = "resolved",
                                                  !.stream = "live"],
                            !.srcObject = IF view.mounted THEN k ELSE @,
                            !.lastEvent = "getUserMedia resolved"]
    /\ UNCHANGED besideView

\* the catch of run k: onCameraError(message)
ViewGetUserMediaRejects(k) ==
    /\ k \in DOMAIN view.runs
    /\ view.runs[k].settled = "pending"
    /\ view' = [view EXCEPT !.runs[k].settled = "rejected",
                            !.reported = @ + 1,
                            !.lastEvent = "getUserMedia rejected"]
    /\ UNCHANGED besideView

InitView ==
    /\ AppInit
    /\ service = NoCall
    /\ resolution = NoCommand
    /\ earlier = NoEarlierApp
    /\ tts = NoPromises
    /\ proxy = NoRequest
    /\ worker = NoWorker
    /\ view = [mounted |-> FALSE, runs |-> <<>>, srcObject |-> 0, reported |-> 0,
               lastEvent |-> "created"]

NextView ==
    \/ ViewMount
    \/ ViewOnCameraErrorChanged
    \/ ViewUnmount
    \/ \E k \in 1..MaxEffectRuns : ViewGetUserMediaResolves(k)
    \/ \E k \in 1..MaxEffectRuns : ViewGetUserMediaRejects(k)

SpecView == InitView /\ [][NextView]_vars

(***************************************************************************)
(* Properties of CameraView                                                *)
(***************************************************************************)
\* C29: camera release on teardown: in every interleaving of the mount, the
\* completion of getUserMedia and the cleanup, a stream that getUserMedia
\* delivered is stopped once the effect run that asked for it is torn down,
\* also when the cleanup ran before getUserMedia resolved; no stream is live
\* after teardown.
C29_NoLiveStreamAfterTeardown ==
    \A k \in DOMAIN view.runs :
        view.runs[k].cleaned => view.runs[k].stream # "live"

\* C29: the component was unmounted while getUserMedia was pending, and the
\* stream delivered afterwards is live with nothing left to stop it
C29_StreamDeliveredAfterCleanup ==
    /\ ~view.mounted
    /\ view.lastEvent = "getUserMedia resolved"
    /\ Len(view.runs) = 1
    /\ view.runs[1].cleaned
    /\ view.runs[1].stream = "live"

\* C29, what holds: a stream delivered before the cleanup of its run is
\* stopped by it; a stream becomes live after the cleanup only by being
\* delivered after it, and it stays live
C29_StoppedWhenDeliveredBeforeCleanup ==
    [][\A k \in DOMAIN view.runs :
          /\ (view.runs[k].stream = "live" /\ ~view.runs[k].cleaned /\ view'.runs[k].cleaned)
                => view'.runs[k].stream = "stopped"
          /\ (view.runs[k].cleaned /\ view.runs[k].stream # "live"
                                     /\ view'.runs[k].stream = "live")
                => /\ view.runs[k].settled = "pending"
                   /\ view'.lastEvent = "getUserMedia resolved"
          /\ (view.runs[k].cleaned /\ view.runs[k].stream = "live")
                => view'.runs[k].stream = "live"]_vars


(***************************************************************************)
(* Properties of the recognition language                                  *)
(***************************************************************************)
\* C30: the recognition language follows the active locale: every
\* recognition session the orchestrator starts runs with recognition.lang
\* equal to the active locale's language code, the code that was passed to
\* speak for the prompt before it.
C30_RecognitionLangIsActiveLocale ==
    recognition \in {"starting", "listening"} => sessionLang = currentLangCode

\* C30: the shop prompt was spoken in Hindi and the recognizer listens for
\* the answer in US English
C30_HindiPromptEnglishRecognition ==
    /\ currentLangCode = "hi-IN"
    /\ activeTaskRef = FIND_SHOP
    /\ recognition = "listening"
    /\ isListening
    /\ sessionLang = "en-US"

\* C30, what holds: every session runs with the default of startListening's
\* parameter, and the step that starts it is the last event of the prompt
\* that handleTaskClick awaited
C30_RecognitionLangIsDefault ==
    /\ [](recognition # "idle" => sessionLang = DefaultLang)
    /\ [][(recognition = "idle" /\ recognition' = "starting")
            => /\ lastEvent'.op \in {"utterance.onend", "utterance.onerror"}
               /\ Head(synth).awaiter = "handleTaskClick"]_vars

====
